---- MODULE Spec2Model ----
(***************************************************************************)
(* GraphConfig (src/app.py): the sequence graph compiler                   *)
(* (build_graph_from_sequence) and the structural edit endpoints           *)
(* (/add_nodes, ...) over the persisted SequenceConfig document.           *)
(*                                                                         *)
(* Python strings are sequences of one-character strings, so that          *)
(* str.split, str.startswith, "in" and sorted() are computed, not assumed. *)
(* A Python value is a record [kind, s, n, m]: kind is the Python type,    *)
(* s the text of a str, n the number of an int (a float is held in         *)
(* tenths), m the items of a dict.  A dict is a function from keys to      *)
(* values; dict.items() is listed in ascending key order.                  *)
(***************************************************************************)
EXTENDS Integers, Sequences, FiniteSets, TLC

\* sequence, graph: the input and the result of the graph compiler;
\* docs: the document in the config file; req, resp: a request and its answer;
\* pre: the document before the request, or as the page last loaded it;
\* inflight: the edit handlers under way; log: their loads and saves in order;
\* client: the editor page; files: the config files by path, where the path
\* can change; CURRENT_CONFIG_PATH: the global of that name
VARIABLES sequence, graph, docs, req, resp, pre, inflight, log, client,
          files, CURRENT_CONFIG_PATH

vars == <<sequence, graph, docs, req, resp, pre, inflight, log, client,
          files, CURRENT_CONFIG_PATH>>

(***************************************************************************)
(* Bounds                                                                  *)
(***************************************************************************)
MaxLen == 3
\* the most records the edit requests may put into the document
MaxModules == 6
\* the most staged inserts in one /add_nodes request
MaxInserts == 2

(***************************************************************************)
(* Strings                                                                 *)
(***************************************************************************)
EmptyStr == << >>

Digits == <<"0", "1", "2", "3", "4", "5", "6", "7", "8", "9">>

Upper == <<"A", "B", "C", "D", "E", "F", "G", "H", "I", "J", "K", "L", "M",
           "N", "O", "P", "Q", "R", "S", "T", "U", "V", "W", "X", "Y", "Z">>

Lower == <<"a", "b", "c", "d", "e", "f", "g", "h", "i", "j", "k", "l", "m",
           "n", "o", "p", "q", "r", "s", "t", "u", "v", "w", "x", "y", "z">>

\* ord(c): the code point of a character
Ord(c) ==
    IF \E d \in 1..10 : Digits[d] = c THEN 47 + (CHOOSE d \in 1..10 : Digits[d] = c)
    ELSE IF \E d \in 1..26 : Upper[d] = c THEN 64 + (CHOOSE d \in 1..26 : Upper[d] = c)
    ELSE IF \E d \in 1..26 : Lower[d] = c THEN 96 + (CHOOSE d \in 1..26 : Lower[d] = c)
    ELSE IF c = "." THEN 46
    ELSE IF c = "_" THEN 95
    ELSE IF c = "[" THEN 91
    ELSE IF c = "]" THEN 93
    ELSE 10

\* a < b for Python strings: lexicographic by code point
RECURSIVE StrLess(_, _)
StrLess(a, b) ==
    IF b = EmptyStr THEN FALSE
    ELSE IF a = EmptyStr THEN TRUE
    ELSE IF Ord(Head(a)) # Ord(Head(b)) THEN Ord(Head(a)) < Ord(Head(b))
    ELSE StrLess(Tail(a), Tail(b))

\* sorted(list(S)) for a set of strings
RECURSIVE sorted(_)
sorted(S) ==
    IF S = {} THEN << >>
    ELSE LET least == CHOOSE a \in S : \A b \in S \ {a} : StrLess(a, b)
         IN  <<least>> \o sorted(S \ {least})

\* str(n) for an integer
RECURSIVE IntStr(_)
IntStr(n) ==
    IF n < 0 THEN <<"-">> \o IntStr(-n)
    ELSE IF n < 10 THEN <<Digits[n + 1]>>
    ELSE IntStr(n \div 10) \o <<Digits[(n % 10) + 1]>>

\* str(x) for a float held in tenths: 15 is 1.5
FloatStr(t) == IntStr(t \div 10) \o <<".">> \o IntStr(t % 10)

\* s.split(sep)
RECURSIVE split(_, _)
split(s, sep) ==
    IF \E i \in 1..Len(s) : s[i] = sep
    THEN LET i == CHOOSE j \in 1..Len(s) : s[j] = sep /\ \A h \in 1..(j - 1) : s[h] # sep
         IN  <<SubSeq(s, 1, i - 1)>> \o split(SubSeq(s, i + 1, Len(s)), sep)
    ELSE <<s>>

\* s.startswith(prefix)
startswith(s, prefix) ==
    Len(s) >= Len(prefix) /\ SubSeq(s, 1, Len(prefix)) = prefix

\* c in s, for a one-character c
contains(s, c) == \E i \in 1..Len(s) : s[i] = c

(***************************************************************************)
(* Values and dicts                                                        *)
(***************************************************************************)
EmptyDict == << >>

StrV(s) == [kind |-> "str", s |-> s, n |-> 0, m |-> EmptyDict]
IntV(n) == [kind |-> "int", s |-> EmptyStr, n |-> n, m |-> EmptyDict]
FloatV(t) == [kind |-> "float", s |-> EmptyStr, n |-> t, m |-> EmptyDict]
BoolV(b) == [kind |-> "bool", s |-> EmptyStr, n |-> IF b THEN 1 ELSE 0, m |-> EmptyDict]
NoneV == [kind |-> "none", s |-> EmptyStr, n |-> 0, m |-> EmptyDict]
ListV == [kind |-> "list", s |-> EmptyStr, n |-> 0, m |-> EmptyDict]
DictV(d) == [kind |-> "dict", s |-> EmptyStr, n |-> 0, m |-> d]

\* d.get(k, default)
get(d, k, default) == IF k \in DOMAIN d THEN d[k] ELSE default

\* d[k] = v
put(d, k, v) == [x \in (DOMAIN d) \cup {k} |-> IF x = k THEN v ELSE d[x]]

\* the keys of d in the order d.items() lists them
items(d) == sorted(DOMAIN d)

\* bool(v): Python truthiness
truthy(v) ==
    CASE v.kind = "str" -> v.s # EmptyStr
      [] v.kind = "int" -> v.n # 0
      [] v.kind = "float" -> v.n # 0
      [] v.kind = "bool" -> v.n # 0
      [] v.kind = "none" -> FALSE
      [] v.kind = "list" -> v.n # 0
      [] v.kind = "dict" -> DOMAIN v.m # {}

\* str(v)
str(v) ==
    CASE v.kind = "str" -> v.s
      [] v.kind = "int" -> IntStr(v.n)
      [] v.kind = "float" -> FloatStr(v.n)
      [] v.kind = "bool" -> IF v.n # 0 THEN <<"T", "r", "u", "e">> ELSE <<"F", "a", "l", "s", "e">>
      [] v.kind = "none" -> <<"N", "o", "n", "e">>
      [] v.kind = "list" -> <<"[", "]">>
      [] v.kind = "dict" -> <<"{", "}">>

K_module == <<"m", "o", "d", "u", "l", "e">>
K_name == <<"n", "a", "m", "e">>
K_order == <<"o", "r", "d", "e", "r">>
K_outputs == <<"o", "u", "t", "p", "u", "t", "s">>
K_ref_ == <<"r", "e", "f", "_">>

(***************************************************************************)
(* parse_module_class_func                                                 *)
(***************************************************************************)
\* (mutant) the second token instead of the last one
parse_module_class_func_second(module_str) ==
    IF module_str.kind # "str" THEN <<EmptyStr, str(module_str)>>
    ELSE LET parts == split(module_str.s, ".")
         IN  IF Len(parts) >= 2 THEN <<parts[1], parts[2]>>
             ELSE <<EmptyStr, parts[1]>>

parse_module_class_func(module_str) ==
    IF module_str.kind # "str" THEN <<EmptyStr, str(module_str)>>
    ELSE LET parts == split(module_str.s, ".")
         IN  IF Len(parts) >= 2 THEN <<parts[1], parts[Len(parts)]>>
             ELSE <<EmptyStr, parts[1]>>

(***************************************************************************)
(* build_graph_from_sequence                                               *)
(***************************************************************************)
\* (mutant) the first candidate instead of the greatest
max_first(candidates) == candidates[1]

\* max(candidates) for a non-empty list of integers
max(candidates) ==
    CHOOSE a \in {candidates[j] : j \in 1..Len(candidates)} :
        \A j \in 1..Len(candidates) : candidates[j] <= a

\* f"n{i}"
node_id(i) == <<"n">> \o IntStr(i)

\* the state of the first loop before record 0
first_pass_start ==
    [nodes |-> << >>, edges |-> << >>, outputs_by_index |-> EmptyDict,
     func_to_indices |-> EmptyDict, cls_to_last_index |-> EmptyDict]

\* (mutant) the class keeps the index of its first occurrence
remember_class_first(cls_to_last_index, cls, i) ==
    IF cls # EmptyStr /\ cls \notin DOMAIN cls_to_last_index
    THEN put(cls_to_last_index, cls, i)
    ELSE cls_to_last_index

\* "if cls: ... cls_to_last_index[cls] = i"
remember_class(cls_to_last_index, cls, i) ==
    IF cls # EmptyStr THEN put(cls_to_last_index, cls, i) ELSE cls_to_last_index

\* one iteration of "for i, mod in enumerate(modules)" of the first pass
first_pass_step(acc, i, mod) ==
    LET full == get(mod, K_module, StrV(EmptyStr))
        cf == parse_module_class_func(full)
        cls == cf[1]
        func == cf[2]
        params == [k \in (DOMAIN mod) \ {K_module} |-> mod[k]]
        label == IF cls # EmptyStr THEN func \o <<"\n", "[">> \o cls \o <<"]">> ELSE func
        node == [id |-> node_id(i), label |-> label, index |-> i, cls |-> cls,
                 func |-> func, full |-> full, params |-> params,
                 w |-> 190, h |-> 48, outputs |-> << >>]
        explicit_outputs == get(mod, K_outputs, DictV(EmptyDict))
        prev_idx == get(acc.cls_to_last_index, cls, -1)
    IN  [nodes |-> Append(acc.nodes, node),
         func_to_indices |->
             put(acc.func_to_indices, func,
                 Append(get(acc.func_to_indices, func, << >>), i)),
         outputs_by_index |->
             IF explicit_outputs.kind = "dict"
             THEN put(acc.outputs_by_index, i,
                      get(acc.outputs_by_index, i, {}) \cup DOMAIN explicit_outputs.m)
             ELSE acc.outputs_by_index,
         edges |->
             IF cls # EmptyStr /\ prev_idx >= 0
             THEN Append(acc.edges,
                         [id |-> <<"s", "c">> \o IntStr(prev_idx) \o <<"_">> \o IntStr(i),
                          source |-> node_id(prev_idx), target |-> node_id(i),
                          label |-> EmptyStr, edge_type |-> "same_class"])
             ELSE acc.edges,
         cls_to_last_index |-> remember_class(acc.cls_to_last_index, cls, i)]

RECURSIVE first_pass(_, _, _)
first_pass(modules, i, acc) ==
    IF i >= Len(modules) THEN acc
    ELSE first_pass(modules, i + 1, first_pass_step(acc, i, modules[i + 1]))

\* resolve_ref returns an index, -1, or raises TypeError
Returned(idx) == [raised |-> FALSE, idx |-> idx]
RaisedTypeError == [raised |-> TRUE, idx |-> -1]

\* (mutant) the candidates are not restricted to the records before the consumer
candidates_anywhere(func_to_indices, name, current_idx) == func_to_indices[name]

\* [idx for idx in func_to_indices[name] if idx < current_idx]
candidates_before(func_to_indices, name, current_idx) ==
    SelectSeq(func_to_indices[name], LAMBDA idx : idx < current_idx)

\* (mutant) the suffix match is tried also when an exact match exists
resolve_ref_suffix_first(func_to_indices, current_idx, ref_module) ==
    LET target == IF truthy(ref_module) THEN ref_module ELSE StrV(EmptyStr)
        exact == IF target.kind = "str" /\ target.s \in DOMAIN func_to_indices
                 THEN candidates_before(func_to_indices, target.s, current_idx)
                 ELSE << >>
        parts == split(target.s, ".")
        last == parts[Len(parts)]
        suffix == IF last \in DOMAIN func_to_indices
                  THEN candidates_before(func_to_indices, last, current_idx)
                  ELSE << >>
    IN  IF target.kind \in {"list", "dict"} THEN RaisedTypeError
        ELSE IF target.kind # "str" THEN RaisedTypeError
        ELSE IF contains(target.s, ".") /\ suffix # << >> THEN Returned(max(suffix))
        ELSE IF exact # << >> THEN Returned(max(exact))
        ELSE Returned(-1)

resolve_ref(func_to_indices, current_idx, ref_module) ==
    LET target == IF truthy(ref_module) THEN ref_module ELSE StrV(EmptyStr)
        exact == IF target.kind = "str" /\ target.s \in DOMAIN func_to_indices
                 THEN candidates_before(func_to_indices, target.s, current_idx)
                 ELSE << >>
        parts == split(target.s, ".")
        last == parts[Len(parts)]
        suffix == IF last \in DOMAIN func_to_indices
                  THEN candidates_before(func_to_indices, last, current_idx)
                  ELSE << >>
    IN  IF target.kind \in {"list", "dict"} THEN RaisedTypeError   \* unhashable key
        ELSE IF exact # << >> THEN Returned(max(exact))
        ELSE IF target.kind # "str" THEN RaisedTypeError           \* "." in target
        ELSE IF contains(target.s, ".") /\ suffix # << >> THEN Returned(max(suffix))
        ELSE Returned(-1)

\* (mutant) the name replaces the outputs found so far
record_output_overwrite(outputs_by_index, src_idx, label) ==
    IF label # EmptyStr THEN put(outputs_by_index, src_idx, {label})
    ELSE outputs_by_index

\* "if label: outputs_by_index.setdefault(src_idx, set()).add(label)"
record_output(outputs_by_index, src_idx, label) ==
    IF label # EmptyStr
    THEN put(outputs_by_index, src_idx, get(outputs_by_index, src_idx, {}) \cup {label})
    ELSE outputs_by_index

\* (mutant) the field key is left out of the id
edge_id_without_key(src_idx, i, k) == <<"e">> \o IntStr(src_idx) \o <<"_">> \o IntStr(i)

\* edge_id = f"e{src_idx}_{i}_{k}"
edge_id(src_idx, i, k) ==
    <<"e">> \o IntStr(src_idx) \o <<"_">> \o IntStr(i) \o <<"_">> \o k

\* the body of "for k, v in mod.items()" for one field of record i
second_pass_field(acc, func_to_indices, i, k, v) ==
    IF acc.raised \/ ~startswith(k, K_ref_) \/ v.kind # "dict" THEN acc
    ELSE LET ref_mod == get(v.m, K_module, NoneV)
             r == resolve_ref(func_to_indices, i, ref_mod)
             src_idx == r.idx
             label == str(get(v.m, K_name, StrV(EmptyStr)))
         IN  IF r.raised THEN [acc EXCEPT !.raised = TRUE]
             ELSE IF src_idx >= 0
             THEN [raised |-> FALSE,
                   edges |-> Append(acc.edges,
                       [id |-> edge_id(src_idx, i, k),
                        source |-> node_id(src_idx), target |-> node_id(i),
                        label |-> label, edge_type |-> "input"]),
                   outputs_by_index |-> record_output(acc.outputs_by_index, src_idx, label)]
             ELSE acc

RECURSIVE second_pass_fields(_, _, _, _, _)
second_pass_fields(acc, func_to_indices, i, mod, keys) ==
    IF keys = << >> THEN acc
    ELSE second_pass_fields(
             second_pass_field(acc, func_to_indices, i, Head(keys), mod[Head(keys)]),
             func_to_indices, i, mod, Tail(keys))

RECURSIVE second_pass(_, _, _, _)
second_pass(modules, func_to_indices, i, acc) ==
    IF i >= Len(modules) THEN acc
    ELSE second_pass(modules, func_to_indices, i + 1,
             second_pass_fields(acc, func_to_indices, i, modules[i + 1],
                                items(modules[i + 1])))

\* "for i, node in enumerate(nodes)": attach the sorted outputs
attach_outputs(nodes, outputs_by_index) ==
    [j \in 1..Len(nodes) |->
        [nodes[j] EXCEPT !.outputs = sorted(get(outputs_by_index, j - 1, {}))]]

NoGraph == [status |-> "none", nodes |-> << >>, edges |-> << >>]

\* (mutant) a module_sequence that is no list is read as an empty one
build_graph_from_anything(seq) ==
    LET ms == seq.module_sequence
        modules == IF ms.kind = "list" THEN ms.items ELSE << >>
        p1 == first_pass(modules, 0, first_pass_start)
        p2 == second_pass(modules, p1.func_to_indices, 0,
                          [raised |-> FALSE, edges |-> p1.edges,
                           outputs_by_index |-> p1.outputs_by_index])
    IN  IF p2.raised
        THEN [status |-> "TypeError", nodes |-> << >>, edges |-> << >>]
        ELSE [status |-> "ok",
              nodes |-> attach_outputs(p1.nodes, p2.outputs_by_index),
              edges |-> p2.edges]

build_graph_from_sequence(seq) ==
    LET ms == seq.module_sequence
        modules == IF ms.kind = "missing" THEN << >> ELSE ms.items
        p1 == first_pass(modules, 0, first_pass_start)
        p2 == second_pass(modules, p1.func_to_indices, 0,
                          [raised |-> FALSE, edges |-> p1.edges,
                           outputs_by_index |-> p1.outputs_by_index])
    IN  IF ms.kind \notin {"list", "missing"}
        THEN [status |-> "ValueError", nodes |-> << >>, edges |-> << >>]
        ELSE IF p2.raised
        THEN [status |-> "TypeError", nodes |-> << >>, edges |-> << >>]
        ELSE [status |-> "ok",
              nodes |-> attach_outputs(p1.nodes, p2.outputs_by_index),
              edges |-> p2.edges]

(***************************************************************************)
(* Inputs of the graph compiler: sequences of at most MaxLen records drawn *)
(* from RecordPool                                                         *)
(***************************************************************************)
S_f == <<"f">>
S_g == <<"g">>
S_A_f == <<"A", ".", "f">>
S_B_f == <<"B", ".", "f">>
S_A_g == <<"A", ".", "g">>
S_B_g == <<"B", ".", "g">>
S_dot_g == <<".", "g">>
S_A_B_5 == <<"A", ".", "B", ".", "5">>
S_1_5 == <<"1", ".", "5">>
K_ref_a == <<"r", "e", "f", "_", "a">>
K_ref_b == <<"r", "e", "f", "_", "b">>
K_refx == <<"r", "e", "f", "x">>
K_p == <<"p">>

\* {"module": target, "name": name, "order": 0}
Ref(target, name) ==
    DictV((K_module :> target) @@ (K_name :> StrV(name)) @@ (K_order :> IntV(0)))

\* {"outputs": {name: None for name in names}}
Outputs(names) == DictV([k \in names |-> NoneV])

RecordPool ==
    { (K_module :> StrV(S_A_f)),
      (K_module :> StrV(S_B_f)) @@ (K_outputs :> Outputs({<<"b">>})),
      (K_module :> StrV(S_A_B_5)),
      (K_module :> FloatV(15)),
      (K_module :> StrV(S_f)),
      (K_p :> IntV(3)),
      (K_module :> StrV(S_A_g)) @@ (K_ref_a :> Ref(StrV(S_f), <<"a">>)),
      (K_module :> StrV(S_B_g)) @@ (K_ref_a :> Ref(StrV(S_B_f), <<"b">>))
                                @@ (K_ref_b :> Ref(StrV(S_f), <<"a">>)),
      (K_module :> StrV(S_g)) @@ (K_ref_a :> Ref(StrV(S_1_5), <<"a">>)),
      (K_module :> StrV(S_B_g)) @@ (K_ref_a :> Ref(StrV(S_g), EmptyStr)),
      (K_module :> StrV(S_dot_g)),
      (K_module :> StrV(S_A_f)) @@ (K_ref_a :> DictV((K_name :> StrV(<<"a">>)))),
      (K_module :> StrV(S_f)) @@ (K_ref_a :> Ref(IntV(5), <<"a">>)),
      (K_module :> StrV(S_A_g)) @@ (K_ref_a :> StrV(S_f))
                                @@ (K_refx :> Ref(StrV(S_f), <<"c">>))
                                @@ (K_outputs :> ListV),
      (K_module :> StrV(S_A_f)) @@ (K_outputs :> Outputs({<<"a">>, <<"c">>}))
                                @@ (K_p :> IntV(3)) }

\* all lists of at most n records of the pool
RECURSIVE RecordLists(_)
RecordLists(n) ==
    IF n = 0 THEN {<< >>}
    ELSE RecordLists(n - 1) \cup
         {Append(l, r) : l \in {x \in RecordLists(n - 1) : Len(x) = n - 1}, r \in RecordPool}

ModuleList(recs) == [kind |-> "list", items |-> recs]
NotAList == [kind |-> "str", items |-> << >>]
MissingList == [kind |-> "missing", items |-> << >>]

Sequence(id, name, ms) == [id |-> id, name |-> name, module_sequence |-> ms]

GraphInputs ==
    {Sequence(0, <<"s">>, ModuleList(l)) : l \in RecordLists(MaxLen)}
    \cup {Sequence(0, <<"s">>, NotAList), Sequence(0, <<"s">>, MissingList),
          Sequence(0, <<"s">>, [kind |-> "none", items |-> << >>]),
          Sequence(0, <<"s">>, [kind |-> "dict", items |-> << >>])}

NoRequest == [op |-> "none"]
NoResponse == [status |-> 0]

(***************************************************************************)
(* SpecGraph: the graph compiler applied to every input                    *)
(***************************************************************************)
InitGraph ==
    /\ sequence \in GraphInputs
    /\ graph = NoGraph
    /\ inflight = << >>
    /\ log = << >>
    /\ docs = << >>
    /\ req = NoRequest
    /\ resp = NoResponse
    /\ pre = << >>
    /\ client = << >>
    /\ files = << >>
    /\ CURRENT_CONFIG_PATH = ""

\* g = build_graph_from_sequence(sequence)
BuildGraph ==
    /\ graph.status = "none"
    /\ graph' = build_graph_from_sequence(sequence)
    /\ UNCHANGED <<sequence, docs, req, resp, pre, inflight, log, client, files, CURRENT_CONFIG_PATH>>

\* build_graph_from_sequence(sequence) once more, on the same sequence
Recompile ==
    /\ graph.status # "none"
    /\ resp = NoResponse
    /\ resp' = build_graph_from_sequence(sequence)
    /\ UNCHANGED <<sequence, graph, docs, req, pre, inflight, log, client, files, CURRENT_CONFIG_PATH>>

NextGraph == BuildGraph \/ Recompile

SpecGraph == InitGraph /\ [][NextGraph]_vars

(***************************************************************************)
(* The persisted document and the /add_nodes endpoint                      *)
(***************************************************************************)
\* get_sequences raises ValueError unless "sequences" is a non-empty list
get_sequences_raises(seq_doc) == seq_doc.sequences = << >>

\* "choose sequence": the position of the first sequence whose id prints like
\* seq_id, else 0
choose_sequence(seqs, seq_id) ==
    IF seq_id.kind # "none" /\ \E i \in 1..Len(seqs) : IntStr(seqs[i].id) = str(seq_id)
    THEN (CHOOSE i \in 1..Len(seqs) :
             /\ IntStr(seqs[i].id) = str(seq_id)
             /\ \A h \in 1..(i - 1) : IntStr(seqs[h].id) # str(seq_id)) - 1
    ELSE 0

\* (mutant) the record at the index is replaced
list_insert_over(l, index, x) ==
    IF index >= 0 /\ index < Len(l) THEN [l EXCEPT ![index + 1] = x] ELSE Append(l, x)

\* list.insert(index, x)
list_insert(l, index, x) ==
    LET at == IF index < 0 THEN (IF Len(l) + index < 0 THEN 0 ELSE Len(l) + index)
              ELSE IF index > Len(l) THEN Len(l)
              ELSE index
    IN  SubSeq(l, 1, at) \o <<x>> \o SubSeq(l, at + 1, Len(l))

\* "for ins in inserts: ... plan.append(...)": an insert whose index int()
\* rejects is skipped
RECURSIVE collect_plan(_)
collect_plan(inserts) ==
    IF inserts = << >> THEN << >>
    ELSE IF Head(inserts).index.kind = "int"
         THEN <<[staged_id |-> Head(inserts).staged_id, index |-> Head(inserts).index.n,
                 node |-> Head(inserts).node]>> \o collect_plan(Tail(inserts))
         ELSE collect_plan(Tail(inserts))

\* (mutant) the plan is left in the order of the request
unsorted_plan(plan) == plan

\* plan.sort(key=lambda x: x["index"]): ascending and stable
RECURSIVE sort_plan(_)
sort_plan(plan) ==
    IF plan = << >> THEN << >>
    ELSE LET j == CHOOSE j \in 1..Len(plan) :
                     /\ \A h \in 1..Len(plan) : plan[j].index <= plan[h].index
                     /\ \A h \in 1..(j - 1) : plan[h].index # plan[j].index
         IN  <<plan[j]>> \o sort_plan(SubSeq(plan, 1, j - 1) \o SubSeq(plan, j + 1, Len(plan)))

\* (mutant) a desired index is taken as it is
place_item_unclamped(acc, item, current_len) ==
    [modules |-> list_insert(acc.modules, item.index, item.node),
     assigned |-> put(acc.assigned, item.staged_id, item.index),
     shift |-> acc.shift + 1]

\* one iteration of "for item in plan"
place_item(acc, item, current_len) ==
    LET d0 == IF item.index < 0 THEN 0 ELSE item.index
        desired == IF d0 > current_len + acc.shift THEN current_len + acc.shift ELSE d0
        final_index == desired
    IN  [modules |-> list_insert(acc.modules, final_index, item.node),
         assigned |-> put(acc.assigned, item.staged_id, final_index),
         shift |-> acc.shift + 1]

RECURSIVE place_plan(_, _, _)
place_plan(acc, plan, current_len) ==
    IF plan = << >> THEN acc
    ELSE place_plan(place_item(acc, Head(plan), current_len), Tail(plan), current_len)

Response(status, assigned) == [status |-> status, assigned |-> assigned]

\* POST /add_nodes: the document saved and the response sent
add_nodes(d, seq_id, inserts) ==
    IF inserts = << >> THEN [docs |-> d, resp |-> Response(200, EmptyDict)]
    ELSE IF get_sequences_raises(d) THEN [docs |-> d, resp |-> Response(500, EmptyDict)]
    ELSE LET sequence_idx == choose_sequence(d.sequences, seq_id)
             ms == d.sequences[sequence_idx + 1].module_sequence
             modules == IF ms.kind = "missing" THEN << >> ELSE ms.items
             plan == sort_plan(collect_plan(inserts))
             placed == place_plan([modules |-> modules, assigned |-> EmptyDict, shift |-> 0],
                                  plan, Len(modules))
         IN  IF ms.kind \notin {"list", "missing"}
             THEN [docs |-> d, resp |-> Response(400, EmptyDict)]
             ELSE [docs |-> [d EXCEPT !.sequences[sequence_idx + 1].module_sequence =
                                         ModuleList(placed.modules)],
                   resp |-> Response(200, placed.assigned)]

(***************************************************************************)
(* Spec: edit requests against the persisted document                      *)
(***************************************************************************)
E0 == (K_module :> StrV(S_A_f))
E1 == (K_module :> StrV(S_B_f)) @@ (K_outputs :> Outputs({<<"b">>}))
E2 == (K_module :> StrV(S_A_g)) @@ (K_ref_a :> Ref(StrV(S_f), <<"a">>))
E3 == (K_module :> StrV(S_f))

\* what the library offers to drop into a sequence
N1 == (K_module :> StrV(S_B_g)) @@ (K_p :> IntV(3))
N2 == (K_module :> StrV(S_g))

\* the staged inserts a request may carry, as <<index, node>>: the index is
\* negative, in range, beyond the end, or null
InsertPool ==
    {<<IntV(-1), N1>>, <<IntV(0), N1>>, <<IntV(0), N2>>, <<IntV(2), N2>>,
     <<IntV(9), N1>>, <<NoneV, N2>>}

\* the sequence ids a request may carry: none, the id of a sequence as a
\* number or as text, the id of a sequence that is no list, an unknown id
SeqIdPool == {NoneV, StrV(<<"1">>), IntV(2), IntV(7)}

StagedIds == <<"sn1", "sn2", "sn3", "sn4">>

\* the inserts lists of at most MaxInserts staged records; the j-th staged id
\* is "sn<j>"
InsertLists ==
    UNION {{[j \in 1..n |-> [staged_id |-> StagedIds[j], index |-> f[j][1], node |-> f[j][2]]] :
               f \in [1..n -> InsertPool]} : n \in 1..MaxInserts}

InitDocs ==
    [sequences |-> <<Sequence(0, <<"s">>, ModuleList(<<E0, E1, E2>>)),
                     Sequence(1, <<"t">>, ModuleList(<<E3>>)),
                     Sequence(2, <<"u">>, NotAList)>>]

Init ==
    /\ docs = InitDocs
    /\ req = NoRequest
    /\ resp = NoResponse
    /\ pre = InitDocs
    /\ sequence = Sequence(0, <<"s">>, MissingList)
    /\ graph = NoGraph
    /\ inflight = << >>
    /\ log = << >>
    /\ client = << >>
    /\ files = << >>
    /\ CURRENT_CONFIG_PATH = ""

\* the module list of the sequence a request with seq_id works on
TargetModules(d, seq_id) ==
    d.sequences[choose_sequence(d.sequences, seq_id) + 1].module_sequence.items

\* the number of records of the document
RECURSIVE SumLen(_)
SumLen(seqs) ==
    IF seqs = << >> THEN 0
    ELSE Len(Head(seqs).module_sequence.items) + SumLen(Tail(seqs))
TotalRecords(d) == SumLen(d.sequences)

\* a POST /add_nodes request, served from load to save
AddNodes ==
    \E seq_id \in SeqIdPool, inserts \in InsertLists :
        /\ TotalRecords(docs) + Len(inserts) <= MaxModules
        /\ LET r == add_nodes(docs, seq_id, inserts)
           IN  /\ docs' = r.docs
               /\ resp' = r.resp
        /\ req' = [op |-> "add_nodes", sequence_id |-> seq_id, inserts |-> inserts]
        /\ pre' = docs
        /\ UNCHANGED <<sequence, graph, inflight, log, client, files, CURRENT_CONFIG_PATH>>

Next == AddNodes

Spec == Init /\ [][Next]_vars

(***************************************************************************)
(* Value coercion (coerce_value)                                           *)
(***************************************************************************)
\* a list or a tuple: its elements are held in m, its length in n
SeqV(kind, xs) == [kind |-> kind, s |-> EmptyStr, n |-> Len(xs), m |-> xs]

\* float("inf"), float("-inf") and float("nan"): s names the value
SpecialFloat(name) ==
    [kind |-> "float", s |-> name, n |-> IF Head(name) = "-" THEN -1 ELSE 1, m |-> EmptyDict]

\* the outcome of a call: the value returned, or an exception
Parsed(v) == [ok |-> TRUE, value |-> v]
Failed == [ok |-> FALSE, value |-> NoneV]

\* s.strip(), for the blank as the whitespace
strip(s) ==
    LET a == CHOOSE a \in 0..Len(s) :
                 (\A j \in 1..a : s[j] = " ") /\ (a = Len(s) \/ s[a + 1] # " ")
        t == SubSeq(s, a + 1, Len(s))
        b == CHOOSE b \in 0..Len(t) :
                 /\ \A j \in (Len(t) - b + 1)..Len(t) : t[j] = " "
                 /\ b = Len(t) \/ t[Len(t) - b] # " "
    IN  SubSeq(t, 1, Len(t) - b)

\* s.lower()
lower(s) ==
    [j \in 1..Len(s) |->
        IF \E d \in 1..26 : Upper[d] = s[j]
        THEN Lower[CHOOSE d \in 1..26 : Upper[d] = s[j]]
        ELSE s[j]]

\* s is a run of decimal digits
all_digits(s) == s # << >> /\ \A j \in 1..Len(s) : \E d \in 1..10 : Digits[d] = s[j]

\* the number a run of digits spells
RECURSIVE digits_value(_)
digits_value(ds) ==
    IF ds = << >> THEN 0
    ELSE digits_value(SubSeq(ds, 1, Len(ds) - 1)) * 10
         + (CHOOSE d \in 1..10 : Digits[d] = ds[Len(ds)]) - 1

\* digits, with single underscores between them allowed, and their number
digit_groups(s) == \A j \in 1..Len(split(s, "_")) : all_digits(split(s, "_")[j])
groups_value(s) == digits_value(SelectSeq(s, LAMBDA c : c # "_"))

\* a numeral without its sign, and the sign: -1 or 1
magnitude(s) == IF s # << >> /\ Head(s) \in {"+", "-"} THEN Tail(s) ELSE s
sign_of(s) == IF s # << >> /\ Head(s) = "-" THEN -1 ELSE 1

\* int(s, 10)
int_10(s) ==
    IF digit_groups(magnitude(strip(s)))
    THEN Parsed(IntV(sign_of(strip(s)) * groups_value(magnitude(strip(s)))))
    ELSE Failed

\* float(s) for the stripped, lower-case text s of magnitude body, without an
\* exponent; the value is held in tenths
float_of_numeral(body, sign) ==
    LET parts == split(body, ".")
        tenths(whole, frac) ==
            (IF whole = << >> THEN 0 ELSE 10 * groups_value(whole))
                + (IF frac = << >> THEN 0 ELSE digits_value(<<frac[1]>>))
        number(whole, frac) ==
            IF /\ whole = << >> \/ digit_groups(whole)
               /\ frac = << >> \/ digit_groups(frac)
               /\ whole # << >> \/ frac # << >>
            THEN Parsed(FloatV(sign * tenths(whole, frac)))
            ELSE Failed
    IN  IF body \in {<<"i", "n", "f">>, <<"i", "n", "f", "i", "n", "i", "t", "y">>}
        THEN Parsed(SpecialFloat(IF sign = 1 THEN <<"i", "n", "f">>
                                 ELSE <<"-", "i", "n", "f">>))
        ELSE IF body = <<"n", "a", "n">> THEN Parsed(SpecialFloat(body))
        ELSE IF Len(parts) = 1 THEN number(parts[1], << >>)
        ELSE IF Len(parts) = 2 THEN number(parts[1], parts[2])
        ELSE Failed

\* float(s)
float_of(s) == float_of_numeral(magnitude(lower(strip(s))), sign_of(lower(strip(s))))

\* (mutant) the float is rounded down
int_of_float_floor(f) ==
    IF f.s # EmptyStr THEN Failed
    ELSE Parsed(IntV(IF f.n < 0 THEN -(((-f.n) + 9) \div 10) ELSE f.n \div 10))

\* int(x) for a float: truncation towards zero; inf and nan raise
int_of_float(f) ==
    IF f.s # EmptyStr THEN Failed
    ELSE Parsed(IntV(IF f.n < 0 THEN -((-f.n) \div 10) ELSE f.n \div 10))

\* json.loads(s) for a JSON value that is no array and no object: null, true,
\* false, NaN, Infinity, a string without escapes, a number without exponent
json_scalar(s) ==
    LET parts == split(magnitude(s), ".")
        numeral(whole) == all_digits(whole) /\ (Len(whole) = 1 \/ whole[1] # "0")
    IN  IF s = <<"n", "u", "l", "l">> THEN Parsed(NoneV)
        ELSE IF s = <<"t", "r", "u", "e">> THEN Parsed(BoolV(TRUE))
        ELSE IF s = <<"f", "a", "l", "s", "e">> THEN Parsed(BoolV(FALSE))
        ELSE IF s = <<"N", "a", "N">> THEN Parsed(SpecialFloat(<<"n", "a", "n">>))
        ELSE IF s = <<"I", "n", "f", "i", "n", "i", "t", "y">>
             THEN Parsed(SpecialFloat(<<"i", "n", "f">>))
        ELSE IF s = <<"-", "I", "n", "f", "i", "n", "i", "t", "y">>
             THEN Parsed(SpecialFloat(<<"-", "i", "n", "f">>))
        ELSE IF /\ Len(s) >= 2 /\ s[1] = "\"" /\ s[Len(s)] = "\""
                /\ \A j \in 2..(Len(s) - 1) : s[j] \notin {"\"", "\\"}
             THEN Parsed(StrV(SubSeq(s, 2, Len(s) - 1)))
        ELSE IF s = << >> \/ Head(s) = "+" THEN Failed
        ELSE IF Len(parts) = 1 /\ numeral(parts[1])
             THEN Parsed(IntV(sign_of(s) * digits_value(parts[1])))
        ELSE IF Len(parts) = 2 /\ numeral(parts[1]) /\ all_digits(parts[2])
             THEN Parsed(FloatV(sign_of(s) * (10 * digits_value(parts[1])
                                              + digits_value(<<parts[2][1]>>))))
             ELSE Failed

\* json.loads of the text between the brackets of an array of scalars
json_array(inner) ==
    LET parts == split(inner, ",")
    IN  IF inner = << >> THEN Parsed(SeqV("list", << >>))
        ELSE IF \A j \in 1..Len(parts) : json_scalar(strip(parts[j])).ok
             THEN Parsed(SeqV("list",
                              [j \in 1..Len(parts) |-> json_scalar(strip(parts[j])).value]))
             ELSE Failed

\* json.loads of the text between the braces of an object of scalars; of two
\* members with one key the later one stays
json_object(inner) ==
    LET parts == split(inner, ",")
        key(j) == json_scalar(strip(split(parts[j], ":")[1]))
        val(j) == json_scalar(strip(split(parts[j], ":")[2]))
        keys == {key(j).value.s : j \in 1..Len(parts)}
    IN  IF inner = << >> THEN Parsed(DictV(EmptyDict))
        ELSE IF \A j \in 1..Len(parts) :
                    /\ Len(split(parts[j], ":")) = 2
                    /\ key(j).ok /\ key(j).value.kind = "str"
                    /\ val(j).ok
             THEN Parsed(DictV([k \in keys |->
                                   val(CHOOSE j \in 1..Len(parts) :
                                           /\ key(j).value.s = k
                                           /\ \A h \in (j + 1)..Len(parts) :
                                                  key(h).value.s # k).value]))
             ELSE Failed

\* json.loads(s): a scalar, an array of scalars or an object of scalars
json_loads(s0) ==
    LET s == strip(s0)
    IN  IF Len(s) >= 2 /\ s[1] = "[" /\ s[Len(s)] = "]"
        THEN json_array(strip(SubSeq(s, 2, Len(s) - 1)))
        ELSE IF Len(s) >= 2 /\ s[1] = "{" /\ s[Len(s)] = "}"
        THEN json_object(strip(SubSeq(s, 2, Len(s) - 1)))
        ELSE json_scalar(s)

\* (mutant) a text that is no JSON leaves the old value in place
coerce_container_keeps_old(s, old_val) ==
    LET parsed == json_loads(s)
    IN  IF parsed.ok
        THEN IF old_val.kind = "tuple" /\ parsed.value.kind = "list"
             THEN Parsed(SeqV("tuple", parsed.value.m))
             ELSE parsed
        ELSE Parsed(old_val)

\* (mutant) a parsed list stays a list whatever the old value was
coerce_container_keeps_list(s, old_val) ==
    IF json_loads(s).ok THEN json_loads(s) ELSE Parsed(StrV(s))

\* "if isinstance(old_val, (dict, list, tuple))"
coerce_container(s, old_val) ==
    LET parsed == json_loads(s)
    IN  IF parsed.ok
        THEN IF old_val.kind = "tuple" /\ parsed.value.kind = "list"
             THEN Parsed(SeqV("tuple", parsed.value.m))
             ELSE parsed
        ELSE Parsed(StrV(s))

\* (mutant) int(float(s)) outside a try block
int_of_float_text_unguarded(s, old_val) ==
    IF float_of(s).ok /\ int_of_float(float_of(s).value).ok
    THEN int_of_float(float_of(s).value)
    ELSE Failed

\* "try: return int(float(s)) except Exception: return old_val"
int_of_float_text(s, old_val) ==
    IF float_of(s).ok /\ int_of_float(float_of(s).value).ok
    THEN int_of_float(float_of(s).value)
    ELSE Parsed(old_val)

\* (mutant) a text that is no number is kept as text
coerce_float_or_text(s, old_val) ==
    IF float_of(s).ok THEN float_of(s) ELSE Parsed(StrV(s))

\* "if isinstance(old_val, float)"
coerce_float(s, old_val) ==
    IF float_of(s).ok THEN float_of(s) ELSE Parsed(old_val)

\* coerce_value(new_val, old_val): Parsed(v) when it returns v, Failed when
\* it raises
coerce_value(new_val, old_val) ==
    LET s == strip(new_val.s)
    IN  IF new_val.kind # "str" THEN Parsed(new_val)
        ELSE IF old_val.kind \in {"dict", "list", "tuple"} THEN coerce_container(s, old_val)
        ELSE IF old_val.kind = "bool"
             THEN IF lower(s) \in {<<"t", "r", "u", "e">>, <<"1">>, <<"y", "e", "s">>,
                                   <<"o", "n">>}
                  THEN Parsed(BoolV(TRUE))
                  ELSE IF lower(s) \in {<<"f", "a", "l", "s", "e">>, <<"0">>, <<"n", "o">>,
                                        <<"o", "f", "f">>}
                       THEN Parsed(BoolV(FALSE))
                       ELSE Parsed(BoolV(s # EmptyStr))
        ELSE IF old_val.kind = "int"
             THEN IF int_10(s).ok THEN int_10(s) ELSE int_of_float_text(s, old_val)
        ELSE IF old_val.kind = "float" THEN coerce_float(s, old_val)
        ELSE IF json_loads(s).ok THEN json_loads(s)
        ELSE Parsed(StrV(s))

(***************************************************************************)
(* SpecCoerce: coerce_value applied to every pair of the pools             *)
(***************************************************************************)
\* the texts an edit surface may submit: booleans in words, integers (blanks
\* around, signed, grouped, with leading zeros), decimals, JSON values, texts
\* that are none of these, the empty and the blank text
Texts ==
    {<<"t", "r", "u", "e">>,
     <<"Y", "e", "s">>,
     <<"o", "f", "f">>,
     <<"0">>,
     <<"1">>,
     <<"1", "3">>,
     <<" ", "1", "3", " ">>,
     <<"-", "7">>,
     <<"+", "5">>,
     <<"3", ".", "7">>,
     <<"-", "3", ".", "7">>,
     <<"1", "_", "0">>,
     <<"0", "0", "7">>,
     <<"a", "b", "c">>,
     << >>,
     <<" ", " ">>,
     <<"n", "o", "t", " ", "j", "s", "o", "n">>,
     <<"[", "1", ",", " ", "2", "]">>,
     <<"[", "]">>,
     <<"{", "\"", "a", "\"", ":", " ", "1", "}">>,
     <<"\"", "x", "\"">>,
     <<"n", "u", "l", "l">>,
     <<"i", "n", "f">>,
     <<"1", ".", "2", ".", "3">>,
     <<"{", "a", "}">>}

\* the new values of a call: a text, or what the surface sent as a non-string
NewValues ==
    {StrV(t) : t \in Texts} \cup {BoolV(TRUE), IntV(4), NoneV, SeqV("list", <<IntV(7)>>)}

\* a call with a new value and an old value, one or two of each type for the
\* old value; None is a new field
InitCoerce ==
    /\ req \in {[op |-> "coerce_value", new_val |-> nv, old_val |-> ov] :
                   nv \in NewValues,
                   ov \in {BoolV(TRUE), BoolV(FALSE), IntV(5), FloatV(25),
                           StrV(<<"a", "b", "c">>), StrV(EmptyStr), NoneV,
                           SeqV("list", <<IntV(1)>>), SeqV("tuple", <<IntV(1), IntV(2)>>),
                           DictV(<<"a">> :> IntV(1))}}
    /\ resp = NoResponse
    /\ docs = << >>
    /\ pre = << >>
    /\ sequence = Sequence(0, <<"s">>, MissingList)
    /\ graph = NoGraph
    /\ inflight = << >>
    /\ log = << >>
    /\ client = << >>
    /\ files = << >>
    /\ CURRENT_CONFIG_PATH = ""

\* r = coerce_value(new_val, old_val)
Coerce ==
    /\ req.op = "coerce_value"
    /\ resp = NoResponse
    /\ resp' = coerce_value(req.new_val, req.old_val)
    /\ UNCHANGED <<sequence, graph, docs, req, pre, inflight, log, client, files, CURRENT_CONFIG_PATH>>

SpecCoerce == InitCoerce /\ [][Coerce]_vars

(***************************************************************************)
(* The documents of the single-request specifications                      *)
(***************************************************************************)
Rejected(status) == [status |-> status]

\* the documents: the first sequence holds 0..MaxLen records with a field of
\* each type, which differ in "p"; the others hold a single record, something
\* that is no list, and no module_sequence at all
EditDocs ==
    LET TypedRecord(j) ==
            (K_module :> StrV(S_A_f)) @@ (K_p :> IntV(j))
                @@ (<<"f", "l", "a", "g">> :> BoolV(FALSE))
                @@ (<<"w">> :> FloatV(25))
                @@ (<<"t", "a", "g", "s">> :> SeqV("list", <<IntV(1)>>))
                @@ (<<"o", "p", "t", "s">> :> DictV(<<"a">> :> IntV(1)))
    IN  {[sequences |-> <<Sequence(0, <<"s">>, ModuleList([j \in 1..k |-> TypedRecord(j)])),
                          Sequence(1, <<"t">>, ModuleList(<<E3>>)),
                          Sequence(2, <<"u">>, NotAList),
                          Sequence(3, <<"v">>, MissingList)>>] : k \in 0..MaxLen}

\* the sequence ids of an edit request: none, or one of the other sequences
EditSeqIds == {NoneV, IntV(1), IntV(2), StrV(<<"3">>)}

\* all lists of at most n entries
RECURSIVE ListsOf(_, _)
ListsOf(S, n) ==
    IF n = 0 THEN {<< >>}
    ELSE ListsOf(S, n - 1) \cup
         {Append(l, x) : l \in {y \in ListsOf(S, n - 1) : Len(y) = n - 1}, x \in S}

InitEdit ==
    /\ docs \in EditDocs
    /\ pre = docs
    /\ req = NoRequest
    /\ resp = NoResponse
    /\ sequence = Sequence(0, <<"s">>, MissingList)
    /\ graph = NoGraph
    /\ inflight = << >>
    /\ log = << >>
    /\ client = << >>
    /\ files = << >>
    /\ CURRENT_CONFIG_PATH = ""

(***************************************************************************)
(* The /reorder_nodes endpoint and SpecReorder: one request against every  *)
(* document                                                                *)
(***************************************************************************)
\* all(isinstance(i, int) for i in l): a bool is an int
all_int(l) == \A j \in 1..Len(l) : l[j].kind \in {"int", "bool"}

\* the numbers of a list of ints and bools: True is 1, False is 0
numbers(l) == [j \in 1..Len(l) |-> l[j].n]

\* sorted(l) for a list of numbers
RECURSIVE sorted_list(_)
sorted_list(l) ==
    IF l = << >> THEN << >>
    ELSE LET j == CHOOSE j \in 1..Len(l) : \A h \in 1..Len(l) : l[j] <= l[h]
         IN  <<l[j]>> \o sorted_list(SubSeq(l, 1, j - 1) \o SubSeq(l, j + 1, Len(l)))

\* (mutant) record j goes to place new_order[j]
reordered_inverse(modules, new_order) ==
    [j \in 1..Len(new_order) |->
        modules[CHOOSE h \in 1..Len(new_order) : new_order[h] = j - 1]]

\* [modules[i] for i in new_order]
reordered(modules, new_order) == [j \in 1..Len(new_order) |-> modules[new_order[j] + 1]]

\* POST /reorder_nodes: the document saved and the response sent
reorder_nodes(d, seq_id, new_order) ==
    IF new_order.kind # "list" \/ ~all_int(new_order.items)
    THEN [docs |-> d, resp |-> Rejected(400)]
    ELSE IF get_sequences_raises(d) THEN [docs |-> d, resp |-> Rejected(500)]
    ELSE LET sequence_idx == choose_sequence(d.sequences, seq_id)
             ms == d.sequences[sequence_idx + 1].module_sequence
             modules == IF ms.kind = "missing" THEN << >> ELSE ms.items
             n == Len(modules)
             order == numbers(new_order.items)
         IN  IF ms.kind \notin {"list", "missing"} THEN [docs |-> d, resp |-> Rejected(400)]
             ELSE IF Len(order) # n THEN [docs |-> d, resp |-> Rejected(400)]
             ELSE IF sorted_list(order) # [j \in 1..n |-> j - 1]
                  THEN [docs |-> d, resp |-> Rejected(400)]
             ELSE [docs |-> [d EXCEPT !.sequences[sequence_idx + 1].module_sequence =
                                         ModuleList(reordered(modules, order))],
                   resp |-> [status |-> 200, count |-> n]]

\* a POST /reorder_nodes request, served from load to save; new_order is a
\* JSON array of indices in and out of range, of true and of a string, or
\* something that is no array
ReorderNodes ==
    /\ req = NoRequest
    /\ \E seq_id \in EditSeqIds,
          new_order \in {ModuleList(l) :
                            l \in ListsOf({IntV(i) : i \in 0..MaxLen}
                                          \cup {BoolV(TRUE), StrV(<<"1">>)}, MaxLen)}
                        \cup {NotAList} :
           /\ LET answer(r) == docs' = r.docs /\ resp' = r.resp
              IN  answer(reorder_nodes(docs, seq_id, new_order))
           /\ req' = [op |-> "reorder_nodes", sequence_id |-> seq_id, new_order |-> new_order]
           /\ pre' = docs
           /\ UNCHANGED <<sequence, graph, inflight, log, client, files, CURRENT_CONFIG_PATH>>

SpecReorder == InitEdit /\ [][ReorderNodes]_vars

(***************************************************************************)
(* The /delete_nodes endpoint and SpecDelete: one request against every    *)
(* document                                                                *)
(***************************************************************************)
\* (mutant) the indices are popped from the least to the greatest
first_to_pop_least(to_delete) == CHOOSE a \in to_delete : \A b \in to_delete : a <= b

\* sorted(..., reverse=True)[0]: the greatest index is popped first
first_to_pop(to_delete) == CHOOSE a \in to_delete : \A b \in to_delete : b <= a

\* for idx in to_delete: modules.pop(idx), passing over an IndexError
RECURSIVE pop_all(_, _)
pop_all(modules, to_delete) ==
    IF to_delete = {} THEN modules
    ELSE LET idx == first_to_pop(to_delete)
             popped == IF idx < Len(modules)
                       THEN SubSeq(modules, 1, idx) \o SubSeq(modules, idx + 2, Len(modules))
                       ELSE modules
         IN  pop_all(popped, to_delete \ {idx})

\* POST /delete_nodes: the document saved and the response sent
delete_nodes(d, seq_id, indices) ==
    IF indices.kind # "list" \/ ~all_int(indices.items)
    THEN [docs |-> d, resp |-> Rejected(400)]
    ELSE IF get_sequences_raises(d) THEN [docs |-> d, resp |-> Rejected(500)]
    ELSE LET sequence_idx == choose_sequence(d.sequences, seq_id)
             ms == d.sequences[sequence_idx + 1].module_sequence
             modules == IF ms.kind = "missing" THEN << >> ELSE ms.items
             given == numbers(indices.items)
             to_delete == {given[j] : j \in 1..Len(given)} \cap (0..(Len(modules) - 1))
             left == pop_all(modules, to_delete)
         IN  IF ms.kind \notin {"list", "missing"} THEN [docs |-> d, resp |-> Rejected(400)]
             ELSE [docs |-> [d EXCEPT !.sequences[sequence_idx + 1].module_sequence =
                                         ModuleList(left)],
                   resp |-> [status |-> 200, remaining |-> Len(left)]]

\* a POST /delete_nodes request, served from load to save; indices is a JSON
\* array of a negative index, of indices in range and too large and of a
\* string, or something that is no array
DeleteNodes ==
    /\ req = NoRequest
    /\ \E seq_id \in EditSeqIds,
          indices \in {ModuleList(l) :
                          l \in ListsOf({IntV(i) : i \in (-1)..MaxLen} \cup {StrV(<<"1">>)},
                                        MaxLen)}
                      \cup {NotAList} :
           /\ LET answer(r) == docs' = r.docs /\ resp' = r.resp
              IN  answer(delete_nodes(docs, seq_id, indices))
           /\ req' = [op |-> "delete_nodes", sequence_id |-> seq_id, indices |-> indices]
           /\ pre' = docs
           /\ UNCHANGED <<sequence, graph, inflight, log, client, files, CURRENT_CONFIG_PATH>>

SpecDelete == InitEdit /\ [][DeleteNodes]_vars

(***************************************************************************)
(* The /update endpoint and SpecUpdate: one request against every document *)
(***************************************************************************)
\* int(v)
int_of(v) ==
    CASE v.kind \in {"int", "bool"} -> Parsed(IntV(v.n))
      [] v.kind = "float" -> int_of_float(v)
      [] v.kind = "str" -> int_10(v.s)
      [] OTHER -> Failed

\* (mutant) only the end of the list is checked
below_len(idx, n) == idx < n

\* 0 <= int(node_index) < len(modules)
in_bounds(idx, n) == 0 <= idx /\ idx < n

\* (mutant) the record is rebuilt from the updates alone
apply_updates_only(node, updates) ==
    [k \in DOMAIN updates |-> coerce_value(updates[k], get(node, k, NoneV)).value]

\* for k, new_val in updates.items(): node[k] = coerce_value(new_val, node.get(k, None))
apply_updates(node, updates) ==
    [k \in (DOMAIN node) \cup (DOMAIN updates) |->
        IF k \in DOMAIN updates
        THEN coerce_value(updates[k], get(node, k, NoneV)).value
        ELSE node[k]]

\* POST /update: the document saved and the response sent.  modules[idx]
\* counts a negative idx from the end.  A module_sequence that is no list is
\* a text of one character: its place 0 is in range, has no .get and takes no
\* assignment.
update_node(d, seq_id, node_index, updates) ==
    LET sequence_idx == choose_sequence(d.sequences, seq_id)
        ms == d.sequences[sequence_idx + 1].module_sequence
        modules == IF ms.kind = "missing" THEN << >> ELSE ms.items
        n == IF ms.kind \in {"list", "missing"} THEN Len(modules) ELSE 1
        idx == int_of(node_index)
        place(i, len) == IF 0 <= i /\ i < len THEN i + 1
                         ELSE IF i < 0 /\ -i <= len THEN len + i + 1
                         ELSE 0
        at == place(idx.value.n, Len(modules))
    IN  IF node_index.kind = "none" THEN [docs |-> d, resp |-> Rejected(400)]
        ELSE IF get_sequences_raises(d) THEN [docs |-> d, resp |-> Rejected(500)]
        ELSE IF ~idx.ok THEN [docs |-> d, resp |-> Rejected(500)]
        ELSE IF ~in_bounds(idx.value.n, n) THEN [docs |-> d, resp |-> Rejected(400)]
        ELSE IF ms.kind \notin {"list", "missing"} \/ at = 0
             THEN [docs |-> d, resp |-> Rejected(500)]
        ELSE IF \E k \in DOMAIN updates :
                    ~coerce_value(updates[k], get(modules[at], k, NoneV)).ok
             THEN [docs |-> d, resp |-> Rejected(500)]
        ELSE [docs |-> [d EXCEPT !.sequences[sequence_idx + 1].module_sequence =
                           ModuleList([modules EXCEPT
                                          ![at] = apply_updates(modules[at], updates)])],
              resp |-> [status |-> 200, node_index |-> node_index]]

\* a POST /update request, served from load to save.  node_index is missing,
\* negative, in range, too large, a number as text or a text that is no
\* number; updates holds nothing, one field (of the record or new) with any
\* new value, or a field of the record and a new field together
UpdateNode ==
    /\ req = NoRequest
    /\ \E seq_id \in EditSeqIds,
          node_index \in {NoneV, IntV(-1), IntV(0), IntV(1), IntV(MaxLen),
                          StrV(<<"1">>), StrV(<<"a", "b", "c">>)},
          updates \in {EmptyDict}
                      \cup {(k :> v) :
                               k \in {K_module, K_p, <<"f", "l", "a", "g">>, <<"w">>,
                                      <<"t", "a", "g", "s">>, <<"o", "p", "t", "s">>, <<"q">>},
                               v \in NewValues}
                      \cup {(K_p :> StrV(t)) @@ (<<"q">> :> v) :
                               t \in {<<"1", "3">>, <<"a", "b", "c">>},
                               v \in {StrV(<<"t", "r", "u", "e">>), IntV(4)}} :
           /\ LET answer(r) == docs' = r.docs /\ resp' = r.resp
              IN  answer(update_node(docs, seq_id, node_index, updates))
           /\ req' = [op |-> "update", sequence_id |-> seq_id, node_index |-> node_index,
                      updates |-> updates]
           /\ pre' = docs
           /\ UNCHANGED <<sequence, graph, inflight, log, client, files, CURRENT_CONFIG_PATH>>

SpecUpdate == InitEdit /\ [][UpdateNode]_vars

(***************************************************************************)
(* SpecRace: two edit requests whose loads and saves interleave            *)
(***************************************************************************)
\* what a handler does to the document it loaded, and what it answers
serve(r, d) ==
    CASE r.op = "update" -> update_node(d, r.sequence_id, r.node_index, r.updates)
      [] r.op = "reorder_nodes" -> reorder_nodes(d, r.sequence_id, r.new_order)
      [] r.op = "delete_nodes" -> delete_nodes(d, r.sequence_id, r.indices)
      [] r.op = "add_nodes" -> add_nodes(d, r.sequence_id, r.inserts)

\* the edit requests in flight: field updates of the first and of the second
\* record and of another sequence, a swap, a delete and an insert
RaceRequests ==
    {[op |-> "update", sequence_id |-> NoneV, node_index |-> IntV(0),
      updates |-> (K_p :> StrV(<<"1", "3">>))],
     [op |-> "update", sequence_id |-> NoneV, node_index |-> IntV(1),
      updates |-> (<<"q">> :> BoolV(TRUE))],
     [op |-> "update", sequence_id |-> IntV(1), node_index |-> IntV(0),
      updates |-> (K_p :> StrV(<<"1">>))],
     [op |-> "reorder_nodes", sequence_id |-> NoneV,
      new_order |-> ModuleList(<<IntV(1), IntV(0)>>)],
     [op |-> "delete_nodes", sequence_id |-> NoneV, indices |-> ModuleList(<<IntV(0)>>)],
     [op |-> "add_nodes", sequence_id |-> NoneV,
      inserts |-> <<[staged_id |-> "sn1", index |-> IntV(0), node |-> N1]>>]}

\* handlers A and B have each received a request
InitRace ==
    /\ docs \in EditDocs
    /\ pre = docs
    /\ inflight \in [{"A", "B"} ->
                        {[request |-> r, pc |-> "received", loaded |-> << >>,
                          resp |-> NoResponse] : r \in RaceRequests}]
    /\ log = << >>
    /\ req = NoRequest
    /\ resp = NoResponse
    /\ sequence = Sequence(0, <<"s">>, MissingList)
    /\ graph = NoGraph
    /\ client = << >>
    /\ files = << >>
    /\ CURRENT_CONFIG_PATH = ""

\* docs = load_all_docs(get_config_path()): the handler's own copy
Load(h) ==
    /\ inflight[h].pc = "received"
    /\ inflight' = [inflight EXCEPT ![h].pc = "loaded", ![h].loaded = docs]
    /\ log' = Append(log, <<"load", h>>)
    /\ UNCHANGED <<sequence, graph, docs, req, resp, pre, client, files, CURRENT_CONFIG_PATH>>

\* (mutant) the handler edits the document as it is when it saves
document_now(h) == docs

\* the document the handler edits: the one it loaded
document_loaded(h) == inflight[h].loaded

\* the handler edits its copy and, unless it rejects the request,
\* save_all_docs(get_config_path(), docs) writes the copy out
Save(h) ==
    /\ inflight[h].pc = "loaded"
    /\ LET answer(r) ==
               /\ docs' = IF r.resp.status = 200 THEN r.docs ELSE docs
               /\ inflight' = [inflight EXCEPT ![h].pc = "answered", ![h].resp = r.resp]
               /\ log' = Append(log, <<IF r.resp.status = 200 THEN "save" ELSE "reject", h>>)
       IN  answer(serve(inflight[h].request, document_loaded(h)))
    /\ UNCHANGED <<sequence, graph, req, resp, pre, client, files, CURRENT_CONFIG_PATH>>

NextRace == \E h \in {"A", "B"} : Load(h) \/ Save(h)

SpecRace == InitRace /\ [][NextRace]_vars

(***************************************************************************)
(* The /sequence/create, /sequence/delete and /sequence/rename endpoints   *)
(***************************************************************************)
\* (mutant) the new id is the number of sequences
new_sequence_id_by_count(seqs) == Len(seqs)

\* "Choose new id": one plus the greatest id, 0 when there is none
new_sequence_id(seqs) ==
    IF seqs = << >> THEN 0
    ELSE (CHOOSE a \in {seqs[j].id : j \in 1..Len(seqs)} :
              \A j \in 1..Len(seqs) : seqs[j].id <= a) + 1

\* POST /sequence/create: the document saved and the response sent
sequence_create(d, kind, source_id, custom_name) ==
    IF get_sequences_raises(d) THEN [docs |-> d, resp |-> Rejected(500)]
    ELSE LET seqs == d.sequences
             new_id == new_sequence_id(seqs)
             src == seqs[choose_sequence(seqs, source_id) + 1]
             default_name == IF truthy(custom_name) THEN custom_name.s
                             ELSE <<"S", "e", "q", "u", "e", "n", "c", "e", " ">>
                                  \o IntStr(new_id)
             copied_name == IF ~truthy(custom_name) /\ strip(src.name) # EmptyStr
                            THEN strip(src.name)
                            ELSE default_name
             copied_modules == IF src.module_sequence.kind = "missing"
                               THEN ModuleList(<< >>)
                               ELSE src.module_sequence
             new_seq == IF lower(kind) = <<"c", "o", "p", "y">>
                        THEN [id |-> new_id, name |-> copied_name, interval |-> 0,
                              module_sequence |-> copied_modules]
                        ELSE [id |-> new_id, name |-> default_name, interval |-> 0,
                              module_sequence |-> ModuleList(<< >>)]
         IN  [docs |-> [d EXCEPT !.sequences = Append(seqs, new_seq)],
              resp |-> [status |-> 200, new_id |-> new_id]]

\* (mutant) the sequences are left in the order of the file
file_order(seqs) == seqs

\* sorted(seqs, key=lambda s: int(s.get("id", 0))): ascending and stable
RECURSIVE sort_by_id(_)
sort_by_id(seqs) ==
    IF seqs = << >> THEN << >>
    ELSE LET j == CHOOSE j \in 1..Len(seqs) :
                     /\ \A h \in 1..Len(seqs) : seqs[j].id <= seqs[h].id
                     /\ \A h \in 1..(j - 1) : seqs[h].id # seqs[j].id
         IN  <<seqs[j]>> \o sort_by_id(SubSeq(seqs, 1, j - 1) \o SubSeq(seqs, j + 1, Len(seqs)))

\* POST /sequence/delete: the document saved and the response sent
sequence_delete(d, id) ==
    IF ~int_of(id).ok THEN [docs |-> d, resp |-> Rejected(400)]
    ELSE IF get_sequences_raises(d) THEN [docs |-> d, resp |-> Rejected(500)]
    ELSE LET target_id == int_of(id).value.n
             seqs_sorted == sort_by_id(d.sequences)
             kept == SelectSeq(seqs_sorted, LAMBDA s : IntStr(s.id) # IntStr(target_id))
             renumbered == [j \in 1..Len(kept) |-> [kept[j] EXCEPT !.id = j - 1]]
             next_id == IF kept = << >> THEN NoneV
                        ELSE IF 0 <= target_id /\ target_id < Len(kept) THEN IntV(target_id)
                        ELSE IntV(Len(kept) - 1)
         IN  IF Len(kept) = Len(seqs_sorted) THEN [docs |-> d, resp |-> Rejected(404)]
             ELSE [docs |-> [d EXCEPT !.sequences = renumbered],
                   resp |-> [status |-> 200, next_selected_id |-> next_id]]

\* POST /sequence/rename: the document saved and the response sent
sequence_rename(d, id, name) ==
    IF ~int_of(id).ok THEN [docs |-> d, resp |-> Rejected(400)]
    ELSE IF name.kind # "str" \/ strip(name.s) = EmptyStr
         THEN [docs |-> d, resp |-> Rejected(400)]
    ELSE IF get_sequences_raises(d) THEN [docs |-> d, resp |-> Rejected(500)]
    ELSE LET seqs == d.sequences
             seq_id == int_of(id).value
         IN  IF \A j \in 1..Len(seqs) : IntStr(seqs[j].id) # str(seq_id)
             THEN [docs |-> d, resp |-> Rejected(404)]
             ELSE [docs |-> [d EXCEPT !.sequences[choose_sequence(seqs, seq_id) + 1].name =
                                         strip(name.s)],
                   resp |-> [status |-> 200]]

(***************************************************************************)
(* SpecSequences: sequences created, deleted and renamed                   *)
(***************************************************************************)
\* the most sequences a document grows to
MaxSeqs == 3

\* documents whose ids are pairwise distinct integers, in order or not, with
\* gaps or without
InitSequences ==
    /\ docs \in {[sequences |-> <<Sequence(0, <<"s">>, ModuleList(<<E3>>))>>],
                 [sequences |-> <<Sequence(0, <<"s">>, ModuleList(<<E3>>)),
                                  Sequence(1, <<"t">>, MissingList)>>],
                 [sequences |-> <<Sequence(5, <<"s">>, ModuleList(<<E3>>)),
                                  Sequence(2, <<" ">>, NotAList)>>]}
    /\ pre = docs
    /\ req = NoRequest
    /\ resp = NoResponse
    /\ sequence = Sequence(0, <<"s">>, MissingList)
    /\ graph = NoGraph
    /\ inflight = << >>
    /\ log = << >>
    /\ client = << >>
    /\ files = << >>
    /\ CURRENT_CONFIG_PATH = ""

\* a POST /sequence/create request, served from load to save
SequenceCreate ==
    \E kind \in {<<"b", "l", "a", "n", "k">>, <<"c", "o", "p", "y">>},
       source_id \in {NoneV, IntV(2)}, name \in {NoneV, StrV(<<"n">>)} :
        /\ Len(docs.sequences) < MaxSeqs
        /\ LET answer(r) == docs' = r.docs /\ resp' = r.resp
           IN  answer(sequence_create(docs, kind, source_id, name))
        /\ req' = [op |-> "sequence_create", kind |-> kind, source_id |-> source_id,
                   name |-> name]
        /\ pre' = docs
        /\ UNCHANGED <<sequence, graph, inflight, log, client, files, CURRENT_CONFIG_PATH>>

\* a POST /sequence/delete request, served from load to save
SequenceDelete ==
    \E id \in {NoneV, IntV(0), IntV(1), IntV(5), IntV(6)} :
        /\ LET answer(r) == docs' = r.docs /\ resp' = r.resp
           IN  answer(sequence_delete(docs, id))
        /\ req' = [op |-> "sequence_delete", id |-> id]
        /\ pre' = docs
        /\ UNCHANGED <<sequence, graph, inflight, log, client, files, CURRENT_CONFIG_PATH>>

\* a POST /sequence/rename request, served from load to save
SequenceRename ==
    \E id \in {IntV(0), IntV(2)}, name \in {StrV(<<" ", "n">>), StrV(<<" ">>)} :
        /\ LET answer(r) == docs' = r.docs /\ resp' = r.resp
           IN  answer(sequence_rename(docs, id, name))
        /\ req' = [op |-> "sequence_rename", id |-> id, name |-> name]
        /\ pre' = docs
        /\ UNCHANGED <<sequence, graph, inflight, log, client, files, CURRENT_CONFIG_PATH>>

NextSequences == SequenceCreate \/ SequenceDelete \/ SequenceRename

SpecSequences == InitSequences /\ [][NextSequences]_vars

(***************************************************************************)
(* SpecParse: parse_module_class_func applied to every module value        *)
(***************************************************************************)
\* a call with a module value: a text of at most MaxLen characters with and
\* without dots, or a value that is no text
InitParse ==
    /\ req \in {[op |-> "parse_module_class_func", module_str |-> v] :
                   v \in {StrV(s) : s \in ListsOf({"A", "b", ".", "5"}, MaxLen)}
                         \cup {IntV(7), FloatV(15), BoolV(TRUE), BoolV(FALSE), NoneV,
                               ListV, DictV(EmptyDict)}}
    /\ resp = NoResponse
    /\ docs = << >>
    /\ pre = << >>
    /\ sequence = Sequence(0, <<"s">>, MissingList)
    /\ graph = NoGraph
    /\ inflight = << >>
    /\ log = << >>
    /\ client = << >>
    /\ files = << >>
    /\ CURRENT_CONFIG_PATH = ""

\* cls, func = parse_module_class_func(module_str)
Parse ==
    /\ req.op = "parse_module_class_func"
    /\ resp = NoResponse
    /\ resp' = [cls |-> parse_module_class_func(req.module_str)[1],
                func |-> parse_module_class_func(req.module_str)[2]]
    /\ UNCHANGED <<sequence, graph, docs, req, pre, inflight, log, client, files, CURRENT_CONFIG_PATH>>

SpecParse == InitParse /\ [][Parse]_vars

(***************************************************************************)
(* The editor page: staged links, staged adds and a staged reorder, and    *)
(* applyStagedChanges, which sends them to /add_nodes, /update and         *)
(* /reorder_nodes.  pre is the document as the page last loaded it.        *)
(***************************************************************************)
\* the most clicks on Save of a behaviour
MaxSaves == 2

\* the most links, drops and drags of a behaviour
MaxGestures == 2

\* (mutant) the status line is 'Saved' whatever happened
status_always_saved(ok) == "Saved"

\* the status line at the end of applyStagedChanges: 'Saved' at the end of the
\* try block, 'Save failed' in the catch block
status_text(ok) == IF ok THEN "Saved" ELSE "Save failed"

\* the page after loadSequences() and loadGraph(): the first sequence is
\* shown and nothing is staged
InitClient ==
    /\ docs = LET Node(j) == (K_module :> StrV(S_A_g)) @@ (K_p :> IntV(j))
                                @@ (K_ref_a :> Ref(StrV(S_g), <<"b">>))
              IN  [sequences |-> <<Sequence(0, <<"s">>, ModuleList(<<Node(1), Node(2)>>)),
                                   Sequence(1, <<"t">>, ModuleList(<<Node(3), Node(4)>>))>>]
    /\ pre = docs
    /\ client = [stagedLinks |-> << >>, stagedAdds |-> << >>, stagedAddCounter |-> 0,
                 stagedReorder |-> NoneV, currentSeqId |-> StrV(<<"0">>),
                 statusEl |-> "", pc |-> "idle", saves |-> 0, gestures |-> 0]
    /\ inflight = << >>
    /\ log = << >>
    /\ req = NoRequest
    /\ resp = NoResponse
    /\ sequence = Sequence(0, <<"s">>, MissingList)
    /\ graph = NoGraph
    /\ files = << >>
    /\ CURRENT_CONFIG_PATH = ""

\* linkerApply: a link from an output to the field ref_a of a shown node is
\* staged
StageLink ==
    /\ client.pc = "idle"
    /\ client.gestures < MaxGestures
    /\ \E target_index \in
              0..(Len(pre.sequences[choose_sequence(pre.sequences, client.currentSeqId) + 1]
                          .module_sequence.items) - 1) :
           LET link == [source_func |-> S_f, output_name |-> <<"a">>,
                        target_index |-> target_index, target_key |-> K_ref_a]
           IN  /\ \A j \in 1..Len(client.stagedLinks) : client.stagedLinks[j] # link
               /\ client' = [client EXCEPT !.stagedLinks = Append(@, link), !.gestures = @ + 1]
    /\ UNCHANGED <<sequence, graph, docs, req, resp, pre, inflight, log, files, CURRENT_CONFIG_PATH>>

\* a module is dropped on the canvas: computeDesiredInsertionIndex counts the
\* shown nodes above the drop point
StageAdd ==
    /\ client.pc = "idle"
    /\ client.gestures < MaxGestures
    /\ client.stagedAddCounter < Len(StagedIds)
    /\ \E node \in {N1, N2},
          desiredIndex \in
              0..Len(pre.sequences[choose_sequence(pre.sequences, client.currentSeqId) + 1]
                        .module_sequence.items) :
           /\ \A j \in 1..Len(client.stagedAdds) : client.stagedAdds[j].node # node
           /\ client' = [client EXCEPT
                            !.stagedAddCounter = @ + 1,
                            !.gestures = @ + 1,
                            !.stagedAdds =
                                Append(@, [staged_id |-> StagedIds[client.stagedAddCounter + 1],
                                           index |-> desiredIndex, node |-> node])]
    /\ UNCHANGED <<sequence, graph, docs, req, resp, pre, inflight, log, files, CURRENT_CONFIG_PATH>>

\* onNodeDragReleased: the shown nodes in their vertical order after the
\* drags so far; an order that is not the original one is staged
StageReorder ==
    /\ client.pc = "idle"
    /\ client.gestures < MaxGestures
    /\ LET n == Len(pre.sequences[choose_sequence(pre.sequences, client.currentSeqId) + 1]
                       .module_sequence.items)
       IN  \E order \in {o \in [1..n -> 0..(n - 1)] :
                            \A a, b \in 1..n : o[a] = o[b] => a = b} :
               client' = [client EXCEPT
                             !.gestures = @ + 1,
                             !.stagedReorder =
                                 IF order = [j \in 1..n |-> j - 1] THEN NoneV
                                 ELSE ModuleList([j \in 1..n |-> IntV(order[j])])]
    /\ UNCHANGED <<sequence, graph, docs, req, resp, pre, inflight, log, files, CURRENT_CONFIG_PATH>>

\* seqSelect 'change': clearStagedLinks(); loadGraph()
SelectSequence ==
    /\ client.pc = "idle"
    /\ \E j \in 1..Len(docs.sequences) :
           /\ StrV(IntStr(docs.sequences[j].id)) # client.currentSeqId
           /\ client' = [client EXCEPT !.stagedLinks = << >>, !.stagedAdds = << >>,
                                       !.currentSeqId = StrV(IntStr(docs.sequences[j].id))]
    /\ pre' = docs
    /\ UNCHANGED <<sequence, graph, docs, req, resp, inflight, log, files, CURRENT_CONFIG_PATH>>

\* applyStagedChanges up to its Promise.all: the staged nodes are inserted
\* and one /update request for each target index is sent
ClickSave ==
    /\ client.pc = "idle"
    /\ client.saves < MaxSaves
    /\ client.stagedLinks # << >> \/ client.stagedAdds # << >> \/ client.stagedReorder # NoneV
    /\ LET plan == [j \in 1..Len(client.stagedAdds) |->
                       [sort_plan(client.stagedAdds)[j] EXCEPT !.index = IntV(@)]]
           keys == {client.stagedLinks[j].target_index : j \in 1..Len(client.stagedLinks)}
           last(keyIndex, k) ==
               CHOOSE j \in 1..Len(client.stagedLinks) :
                   /\ client.stagedLinks[j].target_index = keyIndex
                   /\ client.stagedLinks[j].target_key = k
                   /\ \A h \in (j + 1)..Len(client.stagedLinks) :
                          \/ client.stagedLinks[h].target_index # keyIndex
                          \/ client.stagedLinks[h].target_key # k
           updates(keyIndex) ==
               [k \in {client.stagedLinks[j].target_key :
                          j \in {h \in 1..Len(client.stagedLinks) :
                                    client.stagedLinks[h].target_index = keyIndex}} |->
                   Ref(StrV(client.stagedLinks[last(keyIndex, k)].source_func),
                       client.stagedLinks[last(keyIndex, k)].output_name)]
           sent == [h \in {IntStr(keyIndex) : keyIndex \in keys} |->
                       [request |-> [op |-> "update", sequence_id |-> client.currentSeqId,
                                     node_index |-> IntV(CHOOSE x \in keys : IntStr(x) = h),
                                     updates |-> updates(CHOOSE x \in keys : IntStr(x) = h)],
                        pc |-> "received", loaded |-> << >>, resp |-> NoResponse]]
           send(added) ==
               IF added.resp.status # 200
               THEN /\ client' = [client EXCEPT !.statusEl = status_text(FALSE), !.saves = @ + 1]
                    /\ UNCHANGED <<docs, inflight>>
               ELSE /\ docs' = added.docs
                    /\ inflight' = IF keys = {} THEN << >> ELSE sent
                    /\ client' = [client EXCEPT !.statusEl = "Saving changes...",
                                                !.pc = "updating", !.saves = @ + 1]
       IN  send(add_nodes(docs, client.currentSeqId, plan))
    /\ UNCHANGED <<sequence, graph, req, resp, pre, log, files, CURRENT_CONFIG_PATH>>

\* applyStagedChanges after its Promise.all: a failed /update ends the batch;
\* else the staged order is sent, and when it is accepted the staged edits
\* are dropped and loadGraph() shows the document
FinishSave ==
    /\ client.pc = "updating"
    /\ \A h \in DOMAIN inflight : inflight[h].pc = "answered"
    /\ LET failed ==
               /\ client' = [client EXCEPT !.statusEl = status_text(FALSE), !.pc = "idle"]
               /\ UNCHANGED <<docs, pre>>
           saved(d) ==
               /\ docs' = d
               /\ pre' = d
               /\ client' = [client EXCEPT !.statusEl = status_text(TRUE), !.pc = "idle",
                                           !.stagedLinks = << >>, !.stagedAdds = << >>,
                                           !.stagedReorder = NoneV]
           reorder(r) == IF r.resp.status # 200 THEN failed ELSE saved(r.docs)
       IN  IF \E h \in DOMAIN inflight : inflight[h].resp.status # 200 THEN failed
           ELSE IF client.stagedReorder # NoneV /\ client.stagedReorder.items # << >>
                THEN reorder(reorder_nodes(docs, client.currentSeqId, client.stagedReorder))
                ELSE saved(docs)
    /\ inflight' = << >>
    /\ UNCHANGED <<sequence, graph, req, resp, log, files, CURRENT_CONFIG_PATH>>

SpecClient ==
    InitClient /\ [][\/ StageLink
                     \/ StageAdd
                     \/ StageReorder
                     \/ SelectSequence
                     \/ ClickSave
                     \/ \E h \in DOMAIN inflight : Load(h) \/ Save(h)
                     \/ FinishSave]_vars

(***************************************************************************)
(* The current config path: every handler asks get_config_path() each time *)
(* it loads and each time it saves, and /set_config, /save_as and the      *)
(* dialogs change the path.  The log keeps the path of each load and save. *)
(***************************************************************************)
\* two config files, and an edit request received while config.yml is the
\* current one
InitConfig ==
    /\ files \in {("config.yml" :> d) @@
                  ("other.yml" :> [sequences |-> <<Sequence(0, <<"x">>, ModuleList(<<E0, E1>>))>>]) :
                     d \in EditDocs}
    /\ CURRENT_CONFIG_PATH = "config.yml"
    /\ inflight \in [{"A"} ->
                        {[request |-> r, pc |-> "received", loaded |-> << >>,
                          resp |-> NoResponse] : r \in RaceRequests}]
    /\ log = << >>
    /\ docs = files[CURRENT_CONFIG_PATH]
    /\ pre = docs
    /\ req = NoRequest
    /\ resp = NoResponse
    /\ sequence = Sequence(0, <<"s">>, MissingList)
    /\ graph = NoGraph
    /\ client = << >>

\* docs = load_all_docs(get_config_path())
LoadEdit(h) ==
    /\ inflight[h].pc = "received"
    /\ inflight' = [inflight EXCEPT ![h].pc = "loaded",
                                    ![h].loaded = files[CURRENT_CONFIG_PATH]]
    /\ log' = Append(log, <<"load", h, CURRENT_CONFIG_PATH>>)
    /\ UNCHANGED <<sequence, graph, docs, req, resp, pre, client, files, CURRENT_CONFIG_PATH>>

\* the handler edits its copy and, unless it rejects the request,
\* save_all_docs(get_config_path(), docs) writes the copy out
SaveEdit(h) ==
    /\ inflight[h].pc = "loaded"
    /\ LET answer(r) ==
               /\ files' = IF r.resp.status = 200
                           THEN [files EXCEPT ![CURRENT_CONFIG_PATH] = r.docs]
                           ELSE files
               /\ inflight' = [inflight EXCEPT ![h].pc = "answered", ![h].resp = r.resp]
               /\ log' = Append(log, <<IF r.resp.status = 200 THEN "save" ELSE "reject",
                                       h, CURRENT_CONFIG_PATH>>)
       IN  answer(serve(inflight[h].request, inflight[h].loaded))
    /\ docs' = files'[CURRENT_CONFIG_PATH]
    /\ UNCHANGED <<sequence, graph, req, resp, pre, client, CURRENT_CONFIG_PATH>>

\* /set_config and /dialog/open_config: the file at the path loads, and the
\* path becomes the current one
set_config(path) ==
    /\ path \in DOMAIN files
    /\ CURRENT_CONFIG_PATH' = path
    /\ docs' = files[path]
    /\ UNCHANGED <<sequence, graph, req, resp, pre, inflight, log, client, files>>

\* /save_as and /dialog/save_as: the current document is written to the
\* path, and the path becomes the current one
save_as(path) ==
    /\ files' = [files EXCEPT ![path] = files[CURRENT_CONFIG_PATH]]
    /\ CURRENT_CONFIG_PATH' = path
    /\ docs' = files'[path]
    /\ UNCHANGED <<sequence, graph, req, resp, pre, inflight, log, client>>

SpecConfig ==
    InitConfig /\ [][\/ LoadEdit("A") \/ SaveEdit("A")
                     \/ \E path \in {"config.yml", "other.yml"} :
                            set_config(path) \/ save_as(path)]_vars

(***************************************************************************)
(* Properties of the graph compiler                                        *)
(***************************************************************************)
Modules == sequence.module_sequence.items
NumRecords == Len(Modules)
Compiled == graph.status = "ok"
ListShaped == sequence.module_sequence.kind \in {"list", "missing"}

\* the number written in decimal digits ds
RECURSIVE DecimalValue(_)
DecimalValue(ds) ==
    IF ds = << >> THEN 0
    ELSE 10 * DecimalValue(SubSeq(ds, 1, Len(ds) - 1))
         + (CHOOSE d \in 0..9 : Digits[d + 1] = ds[Len(ds)])

\* the record index a node id "n<i>" names
IndexOf(id) == DecimalValue(Tail(id))

EdgeSet(type) == {j \in 1..Len(graph.edges) : graph.edges[j].edge_type = type}

\* the ref_* fields of the sequence whose value is a map, as <<index, key>>
RefFields ==
    {ik \in UNION {{<<i, k>> : k \in DOMAIN Modules[i + 1]} : i \in 0..(NumRecords - 1)} :
        /\ Len(ik[2]) >= 4
        /\ <<ik[2][1], ik[2][2], ik[2][3], ik[2][4]>> = <<"r", "e", "f", "_">>
        /\ Modules[ik[1] + 1][ik[2]].kind = "dict"}

RefMap(i, k) == Modules[i + 1][k].m
HasStrTarget(i, k) == K_module \in DOMAIN RefMap(i, k) /\ RefMap(i, k)[K_module].kind = "str"
\* the text the reference is looked up by ("" when the module value is missing or falsy)
RefTarget(i, k) == IF HasStrTarget(i, k) THEN RefMap(i, k)[K_module].s ELSE EmptyStr

\* the records before the consumer whose function is fname
Before(i, fname) == {j \in 0..(i - 1) : graph.nodes[j + 1].func = fname}
SetMax(S) == CHOOSE a \in S : \A b \in S : b <= a
Dotted(t) == \E q \in 1..Len(t) : t[q] = "."
LastToken(t) ==
    LET q == CHOOSE q \in 1..Len(t) : t[q] = "." /\ \A r \in (q + 1)..Len(t) : t[r] # "."
    IN  SubSeq(t, q + 1, Len(t))

\* the sources of the input edges made for field k of record i
EdgeSources(i, k) ==
    {IndexOf(graph.edges[j].source) : j \in
        {h \in EdgeSet("input") :
            /\ IndexOf(graph.edges[h].target) = i
            /\ graph.edges[h].id = <<"e">> \o IntStr(IndexOf(graph.edges[h].source))
                                   \o <<"_">> \o IntStr(i) \o <<"_">> \o k}}

\* C1: every input edge goes from a record to a strictly later record of the
\* sequence, so the input edges contain no self-loop, no forward reference and
\* no cycle.
C1_InputEdgesPointBackward ==
    Compiled =>
        \A j \in EdgeSet("input") :
            /\ IndexOf(graph.edges[j].source) \in 0..(NumRecords - 1)
            /\ IndexOf(graph.edges[j].target) \in 0..(NumRecords - 1)
            /\ IndexOf(graph.edges[j].source) < IndexOf(graph.edges[j].target)

\* a compiled graph with an input edge, from a sequence in which a record
\* with the referenced function also stands at or after the consumer
C1_Witness ==
    /\ Compiled
    /\ \E ik \in RefFields :
          /\ EdgeSources(ik[1], ik[2]) # {}
          /\ \E j \in ik[1]..(NumRecords - 1) :
                graph.nodes[j + 1].func = RefTarget(ik[1], ik[2])

\* C2: when records before the consumer have a function equal to the
\* reference's module string, the one input edge of that reference starts at
\* the greatest such index below the consumer.
C2_MostRecentExactProducer ==
    Compiled =>
        \A ik \in RefFields :
            (HasStrTarget(ik[1], ik[2]) /\ Before(ik[1], RefTarget(ik[1], ik[2])) # {})
            => EdgeSources(ik[1], ik[2]) = {SetMax(Before(ik[1], RefTarget(ik[1], ik[2])))}

\* two records before the consumer carry the referenced function
C2_Witness ==
    /\ Compiled
    /\ \E ik \in RefFields :
          /\ HasStrTarget(ik[1], ik[2])
          /\ Cardinality(Before(ik[1], RefTarget(ik[1], ik[2]))) >= 2
          /\ EdgeSources(ik[1], ik[2]) # {}

\* C3: the last dot-separated token of a dotted target is used only when no
\* record before the consumer has the whole target as its function, and then
\* the source is the most recent earlier record with that token as function;
\* an exact match before the consumer wins over a nearer suffix match; an
\* undotted target without an exact match gives no edge.
C3_SuffixFallback ==
    Compiled =>
        \A ik \in RefFields :
            LET i == ik[1]
                t == RefTarget(ik[1], ik[2])
                srcs == EdgeSources(ik[1], ik[2])
            IN  HasStrTarget(ik[1], ik[2]) =>
                  /\ (Before(i, t) # {}) => (srcs # {} /\ srcs \subseteq Before(i, t))
                  /\ (Before(i, t) = {} /\ Dotted(t) /\ Before(i, LastToken(t)) # {})
                       => srcs = {SetMax(Before(i, LastToken(t)))}
                  /\ (Before(i, t) = {} /\ Dotted(t) /\ Before(i, LastToken(t)) = {})
                       => srcs = {}
                  /\ (Before(i, t) = {} /\ ~Dotted(t)) => srcs = {}

\* the fallback is used with two earlier records carrying the last token
C3_Witness ==
    /\ Compiled
    /\ \E ik \in RefFields :
          /\ HasStrTarget(ik[1], ik[2])
          /\ Dotted(RefTarget(ik[1], ik[2]))
          /\ Before(ik[1], RefTarget(ik[1], ik[2])) = {}
          /\ Cardinality(Before(ik[1], LastToken(RefTarget(ik[1], ik[2])))) >= 2
          /\ EdgeSources(ik[1], ik[2]) # {}

\* an exact match stands before a nearer suffix match
C3_ExactBeforeNearerSuffix ==
    /\ Compiled
    /\ \E ik \in RefFields :
          /\ HasStrTarget(ik[1], ik[2])
          /\ Dotted(RefTarget(ik[1], ik[2]))
          /\ Before(ik[1], RefTarget(ik[1], ik[2])) # {}
          /\ Before(ik[1], LastToken(RefTarget(ik[1], ik[2]))) # {}
          /\ SetMax(Before(ik[1], LastToken(RefTarget(ik[1], ik[2]))))
               > SetMax(Before(ik[1], RefTarget(ik[1], ik[2])))

\* C4: every list-shaped sequence of map records compiles without raising;
\* a ref_* map whose module (string, missing or non-string) matches no earlier
\* record yields no edge and no error.
C4_NeverRaises ==
    (ListShaped /\ graph.status # "none") => graph.status = "ok"

\* the class of record j: the text before the first dot of its module string
ClassOf(j) ==
    LET v == IF K_module \in DOMAIN Modules[j + 1] THEN Modules[j + 1][K_module]
             ELSE StrV(EmptyStr)
    IN  IF v.kind = "str" /\ Dotted(v.s)
        THEN SubSeq(v.s, 1, (CHOOSE q \in 1..Len(v.s) :
                                v.s[q] = "." /\ \A r \in 1..(q - 1) : v.s[r] # ".") - 1)
        ELSE EmptyStr

\* the function of record j: the text after the last dot of its module string
FuncOf(j) ==
    LET v == IF K_module \in DOMAIN Modules[j + 1] THEN Modules[j + 1][K_module]
             ELSE StrV(EmptyStr)
    IN  IF v.kind # "str" THEN str(v)
        ELSE IF Dotted(v.s) THEN LastToken(v.s)
        ELSE v.s

\* the pairs of consecutive occurrences of a class among the classes cs
ConsecutivePairs(cs) ==
    {ab \in (0..(NumRecords - 1)) \X (0..(NumRecords - 1)) :
        /\ ab[1] < ab[2]
        /\ ClassOf(ab[1]) \in cs
        /\ ClassOf(ab[1]) = ClassOf(ab[2])
        /\ \A j \in (ab[1] + 1)..(ab[2] - 1) : ClassOf(j) # ClassOf(ab[1])}

SameClassPairs ==
    {<<IndexOf(graph.edges[j].source), IndexOf(graph.edges[j].target)>> :
        j \in EdgeSet("same_class")}

Classes == {ClassOf(j) : j \in 0..(NumRecords - 1)}

\* C5 as stated: for every class value, the empty one included, the
\* same_class edges are exactly the k-1 links between consecutive occurrences.
C5_ChainForEveryClassValue ==
    Compiled =>
        /\ SameClassPairs = ConsecutivePairs(Classes)
        /\ Cardinality(EdgeSet("same_class")) = Cardinality(ConsecutivePairs(Classes))

\* C5 (amended): for every non-empty class value occurring at i1 < ... < ik the
\* same_class edges are exactly i1->i2, ..., i(k-1)->ik, each once; records
\* whose class is empty (no dot, or nothing before the first dot) get no
\* same_class edge.
C5_ChainPerNonEmptyClass ==
    Compiled =>
        /\ SameClassPairs = ConsecutivePairs(Classes \ {EmptyStr})
        /\ Cardinality(EdgeSet("same_class"))
             = Cardinality(ConsecutivePairs(Classes \ {EmptyStr}))

\* a non-empty class occurs three times
C5_Witness ==
    /\ Compiled
    /\ NumRecords >= 3
    /\ ClassOf(0) # EmptyStr
    /\ \A j \in 0..(NumRecords - 1) : ClassOf(j) = ClassOf(0)
    /\ Cardinality(EdgeSet("same_class")) = NumRecords - 1

\* the record a reference resolves to, or -1
ExpectedSource(i, k) ==
    LET t == RefTarget(i, k)
    IN  IF Before(i, t) # {} THEN SetMax(Before(i, t))
        ELSE IF Dotted(t) /\ Before(i, LastToken(t)) # {} THEN SetMax(Before(i, LastToken(t)))
        ELSE -1

ExplicitOutputs(i) ==
    IF K_outputs \in DOMAIN Modules[i + 1] /\ Modules[i + 1][K_outputs].kind = "dict"
    THEN DOMAIN Modules[i + 1][K_outputs].m
    ELSE {}

\* the name values of the references that resolve to record i
ReferencedNames(i) ==
    {str(RefMap(ik[1], ik[2])[K_name]) : ik \in
        {x \in RefFields : ExpectedSource(x[1], x[2]) = i /\ K_name \in DOMAIN RefMap(x[1], x[2])}}

StrictlyAscending(l) == \A a, b \in 1..Len(l) : a < b => StrLess(l[a], l[b])
Range(l) == {l[j] : j \in 1..Len(l)}

\* C6 as stated: the outputs of record i are its explicit output keys and the
\* name of every reference resolving to i, sorted and without duplicates.
C6_OutputsAreUnionOfAllNames ==
    Compiled =>
        \A i \in 0..(NumRecords - 1) :
            /\ StrictlyAscending(graph.nodes[i + 1].outputs)
            /\ Range(graph.nodes[i + 1].outputs) = ExplicitOutputs(i) \cup ReferencedNames(i)

\* C6 (amended): the outputs of record i are its explicit output keys and the
\* non-empty names of the references resolving to i, sorted and without
\* duplicates; a reference with an empty or missing name adds no output.
C6_OutputsAreUnionOfNonEmptyNames ==
    Compiled =>
        \A i \in 0..(NumRecords - 1) :
            /\ StrictlyAscending(graph.nodes[i + 1].outputs)
            /\ Range(graph.nodes[i + 1].outputs)
                 = ExplicitOutputs(i) \cup (ReferencedNames(i) \ {EmptyStr})

\* a record with explicit outputs is referenced under another name
C6_Witness ==
    /\ Compiled
    /\ \E i \in 0..(NumRecords - 1) :
          /\ ExplicitOutputs(i) # {}
          /\ ReferencedNames(i) \ ({EmptyStr} \cup ExplicitOutputs(i)) # {}
          /\ Len(graph.nodes[i + 1].outputs) >= 2

\* C7: one node per record, in order; node i has index i, the class and
\* function split from the record's module, and the record's fields except
\* module as params; a non-string module gives an empty class and the
\* stringified value as function.
C7_OneNodePerRecord ==
    Compiled =>
        /\ Len(graph.nodes) = NumRecords
        /\ \A i \in 0..(NumRecords - 1) :
              LET node == graph.nodes[i + 1]
                  mod == Modules[i + 1]
              IN  /\ node.index = i
                  /\ IndexOf(node.id) = i
                  /\ node.cls = ClassOf(i)
                  /\ node.func = FuncOf(i)
                  /\ DOMAIN node.params = (DOMAIN mod) \ {K_module}
                  /\ \A k \in DOMAIN node.params : node.params[k] = mod[k]
                  /\ (K_module \in DOMAIN mod /\ mod[K_module].kind = "float")
                        => (node.cls = EmptyStr
                            /\ node.func = IntStr(mod[K_module].n \div 10) \o <<".">>
                                           \o IntStr(mod[K_module].n % 10))

\* a sequence with a non-string module, a module with two dots and a record
\* with parameters
C7_Witness ==
    /\ Compiled
    /\ \E i, j, h \in 0..(NumRecords - 1) :
          /\ K_module \in DOMAIN Modules[i + 1]
          /\ Modules[i + 1][K_module].kind = "float"
          /\ graph.nodes[j + 1].full = StrV(S_A_B_5)
          /\ DOMAIN graph.nodes[h + 1].params # {}

(***************************************************************************)
(* Properties of /add_nodes                                                *)
(***************************************************************************)
AddNodesServed == req.op = "add_nodes" /\ resp.status = 200

\* the staged inserts of the request that carry an integer index
Planned == {j \in 1..Len(req.inserts) : req.inserts[j].index.kind = "int"}

\* C8: the final indices reported for one insert batch are pairwise distinct;
\* two inserts with desired index 0 against 3 existing records get the final
\* indices 0 and 1.
C8_FinalIndicesPairwiseDistinct ==
    AddNodesServed =>
        /\ \A a, b \in DOMAIN resp.assigned :
              a # b => resp.assigned[a] # resp.assigned[b]
        /\ ( /\ Len(TargetModules(pre, req.sequence_id)) = 3
             /\ Cardinality(Planned) = 2
             /\ \A j \in Planned : req.inserts[j].index.n = 0 )
           => {resp.assigned[a] : a \in DOMAIN resp.assigned} = {0, 1}

\* C9: after an insert batch, the record at the final index reported for a
\* staged id is the record staged under that id.
C9_MappedIndexHoldsStagedRecord ==
    AddNodesServed =>
        \A j \in Planned :
            /\ req.inserts[j].staged_id \in DOMAIN resp.assigned
            /\ TargetModules(docs, req.sequence_id)[resp.assigned[req.inserts[j].staged_id] + 1]
                 = req.inserts[j].node

Perms(n) == {f \in [1..n -> 1..n] : \A a, b \in 1..n : a # b => f[a] # f[b]}
Permute(l, f) == [j \in 1..Len(l) |-> l[f[j]]]

\* every listing order of the request's staged inserts gives the document and
\* the id-to-index map the request gave
SameForEveryListingOrder ==
    \A f \in Perms(Len(req.inserts)) :
        LET r == add_nodes(pre, req.sequence_id, Permute(req.inserts, f))
        IN  r.docs = docs /\ r.resp = resp

DistinctDesiredIndices ==
    \A a, b \in Planned : a # b => req.inserts[a].index.n # req.inserts[b].index.n

\* C10 as stated: the resulting sequence and the id-to-index map do not depend
\* on the order the staged inserts are listed in, inserts sharing a desired
\* index included.
C10_ListingOrderIrrelevant ==
    AddNodesServed => SameForEveryListingOrder

\* C10 (amended): the resulting sequence and the id-to-index map do not depend
\* on the order the staged inserts are listed in, provided their desired
\* indices are pairwise distinct.
C10_ListingOrderIrrelevantForDistinctIndices ==
    (AddNodesServed /\ DistinctDesiredIndices) => SameForEveryListingOrder

\* a batch of two inserts listed in descending order of distinct desired indices
C10_Witness ==
    /\ AddNodesServed
    /\ Len(req.inserts) = 2
    /\ Planned = {1, 2}
    /\ req.inserts[1].index.n > req.inserts[2].index.n
    /\ req.inserts[1].node # req.inserts[2].node
    /\ Len(TargetModules(docs, req.sequence_id))
         = Len(TargetModules(pre, req.sequence_id)) + 2

(***************************************************************************)
(* Properties of /reorder_nodes                                            *)
(***************************************************************************)
ReorderServed == req.op = "reorder_nodes"

\* the record list the served request worked on, before and after
OldList == TargetModules(pre, req.sequence_id)
NewList == TargetModules(docs, req.sequence_id)

\* new_order is a list of integers that holds each of 0..n-1 exactly once
IsPermutationOfIndices(new_order, n) ==
    /\ new_order.kind = "list"
    /\ Len(new_order.items) = n
    /\ \A j \in 1..n : new_order.items[j].kind = "int"
    /\ \A i \in 0..(n - 1) : \E j \in 1..n : new_order.items[j].n = i

\* C11: a reorder request is accepted exactly when new_order has the length of
\* the current record list and is a permutation of 0..n-1; every other
\* new_order (wrong length, repeated index, index out of range, non-integer
\* entry) is rejected and leaves the persisted document unchanged.
C11_AcceptedIffPermutation ==
    (ReorderServed /\ pre.sequences[choose_sequence(pre.sequences, req.sequence_id) + 1]
                         .module_sequence.kind \in {"list", "missing"})
        => /\ (resp.status = 200) <=> IsPermutationOfIndices(req.new_order, Len(OldList))
           /\ (resp.status # 200) => docs = pre

\* C12: after an accepted reorder, place i of the new list holds the record
\* that was at place new_order[i] of the old list; the list has the same
\* length and the same records, none duplicated or lost.
C12_NewListIsOldListPermuted ==
    (ReorderServed /\ resp.status = 200)
        => /\ Len(NewList) = Len(OldList)
           /\ \A i \in 1..Len(NewList) : NewList[i] = OldList[req.new_order.items[i].n + 1]
           /\ \A h \in 1..Len(OldList) :
                  Cardinality({i \in 1..Len(NewList) : NewList[i] = OldList[h]})
                      = Cardinality({i \in 1..Len(OldList) : OldList[i] = OldList[h]})

\* an accepted reorder of three records that moves every record and is not
\* its own inverse
C12_Witness ==
    /\ ReorderServed /\ resp.status = 200
    /\ numbers(req.new_order.items) = <<1, 2, 0>>
    /\ NewList # OldList

(***************************************************************************)
(* Properties of /delete_nodes                                             *)
(***************************************************************************)
\* a served delete-batch whose indices are a list of integers, on a sequence
\* that has a record list
DeleteOfIntegers ==
    /\ req.op = "delete_nodes"
    /\ req.indices.kind = "list"
    /\ \A j \in 1..Len(req.indices.items) : req.indices.items[j].kind = "int"
    /\ pre.sequences[choose_sequence(pre.sequences, req.sequence_id) + 1]
           .module_sequence.kind \in {"list", "missing"}

\* the places of the old list the request names
Named ==
    {i \in 0..(Len(OldList) - 1) :
        \E j \in 1..Len(req.indices.items) : req.indices.items[j].n = i}

\* the places of the old list the request does not name
Kept == (0..(Len(OldList) - 1)) \ Named

\* the r-th least of the kept places
KeptAt(r) == CHOOSE i \in Kept : Cardinality({h \in Kept : h < i}) = r - 1

\* C13: a delete-batch with any list of integer indices (duplicates, negative
\* or too large values included) removes exactly the records at the in-range
\* indices given, each once; the other records keep their relative order; no
\* error is raised.
C13_DeletesExactlyInRangeIndices ==
    DeleteOfIntegers
        => /\ resp.status = 200
           /\ Len(NewList) = Cardinality(Kept)
           /\ \A r \in 1..Len(NewList) : NewList[r] = OldList[KeptAt(r) + 1]

\* a batch with a duplicate, a negative and a too large index that removes
\* the first and the last of three records
C13_Witness ==
    /\ DeleteOfIntegers /\ resp.status = 200
    /\ Len(OldList) = 3 /\ Named = {0, 2}
    /\ \E j \in 1..Len(req.indices.items) : req.indices.items[j].n < 0
    /\ NewList = <<OldList[2]>>

(***************************************************************************)
(* The texts the properties name                                           *)
(***************************************************************************)
T_true == <<"t", "r", "u", "e">>
T_Yes == <<"Y", "e", "s">>
T_off == <<"o", "f", "f">>
T_0 == <<"0">>
T_1 == <<"1">>
T_13 == <<"1", "3">>
T_13_spaced == <<" ", "1", "3", " ">>
T_minus7 == <<"-", "7">>
T_plus5 == <<"+", "5">>
T_3p7 == <<"3", ".", "7">>
T_minus3p7 == <<"-", "3", ".", "7">>
T_1_0 == <<"1", "_", "0">>
T_007 == <<"0", "0", "7">>
T_abc == <<"a", "b", "c">>
T_empty == << >>
T_blank == <<" ", " ">>
T_not_json == <<"n", "o", "t", " ", "j", "s", "o", "n">>
T_list_1_2 == <<"[", "1", ",", " ", "2", "]">>
T_list_empty == <<"[", "]">>
T_map_a_1 == <<"{", "\"", "a", "\"", ":", " ", "1", "}">>
T_quoted_x == <<"\"", "x", "\"">>
T_null == <<"n", "u", "l", "l">>
T_inf == <<"i", "n", "f">>
T_1p2p3 == <<"1", ".", "2", ".", "3">>
T_brace_a == <<"{", "a", "}">>

(***************************************************************************)
(* Properties of /update                                                   *)
(***************************************************************************)
UpdateServed == req.op = "update"
UpdateAccepted == UpdateServed /\ resp.status = 200

\* the sequence the served request worked on has a record list
TargetHasList ==
    pre.sequences[choose_sequence(pre.sequences, req.sequence_id) + 1]
        .module_sequence.kind \in {"list", "missing"}

\* C14: a field update whose node index is outside 0..len-1 of the target
\* sequence (negative or too large) is rejected with an error reported to the
\* caller, and the persisted document is unchanged.
C14_OutOfRangeIndexRejected ==
    (/\ UpdateServed /\ TargetHasList
     /\ req.node_index.kind = "int"
     /\ req.node_index.n < 0 \/ req.node_index.n >= Len(OldList))
        => resp.status = 400 /\ docs = pre

\* a negative and a too large index, each with a field to set, against a
\* sequence that has records
C14_Witness ==
    /\ UpdateServed /\ TargetHasList /\ Len(OldList) = 2
    /\ req.node_index \in {IntV(-1), IntV(MaxLen)}
    /\ DOMAIN req.updates # {}
    /\ resp.status = 400

\* the place of the record an accepted update names (the index may come as
\* a decimal text)
UpdatedPlace ==
    IF req.node_index.kind = "str" THEN DecimalValue(req.node_index.s) + 1
    ELSE req.node_index.n + 1
OldRecord == OldList[UpdatedPlace]
NewRecord == NewList[UpdatedPlace]

\* C15: an accepted field update at index i with updates map U sets, for each
\* key k of U, record i's field k to coerce_value(U[k], old value of k, or
\* None when k is new), and changes nothing else: the other fields of record
\* i, every other record of the sequence, the record order and the record
\* count are unchanged.
C15_UpdateSetsOnlyTheNamedFields ==
    UpdateAccepted
        => /\ DOMAIN NewRecord = (DOMAIN OldRecord) \cup (DOMAIN req.updates)
           /\ \A k \in DOMAIN req.updates :
                  NewRecord[k] = coerce_value(req.updates[k], get(OldRecord, k, NoneV)).value
           /\ \A k \in (DOMAIN OldRecord) \ (DOMAIN req.updates) : NewRecord[k] = OldRecord[k]
           /\ Len(NewList) = Len(OldList)
           /\ \A j \in 1..Len(OldList) : j # UpdatedPlace => NewList[j] = OldList[j]
           /\ Len(docs.sequences) = Len(pre.sequences)
           /\ \A x \in 1..Len(pre.sequences) :
                  IF x = choose_sequence(pre.sequences, req.sequence_id) + 1
                  THEN /\ docs.sequences[x].id = pre.sequences[x].id
                       /\ docs.sequences[x].name = pre.sequences[x].name
                  ELSE docs.sequences[x] = pre.sequences[x]

\* an accepted update of the middle one of three records that sets an old
\* field and a new one
C15_Witness ==
    /\ UpdateAccepted /\ Len(OldList) = 3 /\ UpdatedPlace = 2
    /\ DOMAIN req.updates = {K_p, <<"q">>}
    /\ K_p \in DOMAIN OldRecord
    /\ NewRecord[K_p] = IntV(13) /\ OldRecord[K_p] = IntV(2)
    /\ <<"q">> \notin DOMAIN OldRecord /\ <<"q">> \in DOMAIN NewRecord

\* the fields of the accepted update that exist in the record and get a string
StringForExistingField ==
    {k \in (DOMAIN req.updates) \cap (DOMAIN OldRecord) : req.updates[k].kind = "str"}

\* C16 (as stated): a field update that supplies a string for an existing
\* field leaves the field's type (boolean, integer, float, string, list, map)
\* as it was, for every old value and every submitted string.
C16_FieldTypeKept ==
    UpdateAccepted
        => \A k \in StringForExistingField : NewRecord[k].kind = OldRecord[k].kind

\* C16 (amended): a field update that supplies a string for an existing
\* boolean, integer or float field leaves the field's type as it was, for
\* every submitted string.
C16_FieldTypeKeptForBoolIntFloat ==
    UpdateAccepted
        => \A k \in StringForExistingField :
               OldRecord[k].kind \in {"bool", "int", "float"}
                   => NewRecord[k].kind = OldRecord[k].kind

\* an integer field that gets the text "3.7" and becomes the integer 3
C16_Witness ==
    /\ UpdateAccepted
    /\ req.updates = (K_p :> StrV(T_3p7))
    /\ K_p \in DOMAIN OldRecord
    /\ OldRecord[K_p].kind = "int" /\ NewRecord[K_p] = IntV(3)

(***************************************************************************)
(* Properties of coerce_value                                              *)
(***************************************************************************)
Coerced == req.op = "coerce_value" /\ resp # NoResponse

\* u is t without the blanks at its ends
IsTrimOf(u, t) ==
    \E a, b \in 0..Len(t) :
        /\ a + b <= Len(t)
        /\ u = SubSeq(t, a + 1, Len(t) - b)
        /\ \A j \in 1..a : t[j] = " "
        /\ \A j \in (Len(t) - b + 1)..Len(t) : t[j] = " "
        /\ u = << >> \/ (u[1] # " " /\ u[Len(u)] # " ")

\* the texts of the pool json.loads rejects
NotJson ==
    {T_Yes, T_off, T_plus5, T_1_0, T_007, T_abc, T_empty, T_blank, T_not_json, T_inf,
     T_1p2p3, T_brace_a}

\* the texts of the pool float() rejects
NotAFloat ==
    {T_true, T_Yes, T_off, T_abc, T_empty, T_blank, T_not_json, T_list_1_2, T_list_empty,
     T_map_a_1, T_quoted_x, T_null, T_1p2p3, T_brace_a}

\* the texts of the pool neither int(s, 10) nor int(float(s)) accepts
NotAnInteger == NotAFloat \cup {T_inf}

\* C17 (as stated): coercing a string that is not valid JSON against an old
\* value that is a map returns the original map unchanged, and raises no
\* error: coerce("not json", {"a":1}) = {"a":1}.
C17_NotJsonKeepsTheMap ==
    (Coerced /\ req.old_val.kind = "dict" /\ req.new_val.kind = "str"
             /\ req.new_val.s \in NotJson)
        => resp.ok /\ resp.value = req.old_val

\* C17 (amended): coercing a string that is not valid JSON against an old
\* value that is a map returns the trimmed string in place of the map, and
\* raises no error: coerce("not json", {"a":1}) = "not json".
C17_NotJsonReplacesTheMapByTheText ==
    (Coerced /\ req.old_val.kind = "dict" /\ req.new_val.kind = "str"
             /\ req.new_val.s \in NotJson)
        => /\ resp.ok
           /\ resp.value.kind = "str"
           /\ IsTrimOf(resp.value.s, req.new_val.s)

\* coerce("not json", {"a":1}) has returned "not json"
C17_Witness ==
    /\ Coerced
    /\ req.new_val = StrV(T_not_json) /\ req.old_val = DictV(<<"a">> :> IntV(1))
    /\ resp.value = StrV(T_not_json)

\* C18: coerce_value never raises, for every pair (new value, old value): a
\* non-string new value is returned as is, and a string that cannot be parsed
\* into the old value's type yields a value (the old value, or the trimmed
\* string) instead of an error.
C18_CoerceNeverRaises ==
    Coerced
        => /\ resp.ok
           /\ req.new_val.kind # "str" => resp.value = req.new_val
           /\ (/\ req.new_val.kind = "str"
               /\ \/ req.old_val.kind = "int" /\ req.new_val.s \in NotAnInteger
                  \/ req.old_val.kind = "float" /\ req.new_val.s \in NotAFloat)
                  => resp.value = req.old_val
           /\ (/\ req.new_val.kind = "str"
               /\ req.old_val.kind \in {"dict", "list", "tuple", "str", "none"}
               /\ req.new_val.s \in NotJson)
                  => resp.value.kind = "str" /\ IsTrimOf(resp.value.s, req.new_val.s)
           /\ (req.new_val.kind = "str" /\ req.old_val.kind = "bool")
                  => resp.value.kind = "bool"

\* "inf" against an old integer: int() and int(float()) both raise inside
\* their try blocks, and the old value comes back
C18_Witness ==
    /\ Coerced
    /\ req.new_val = StrV(T_inf) /\ req.old_val = IntV(5)
    /\ resp = Parsed(IntV(5))

(***************************************************************************)
(* Properties of interleaved edit requests                                 *)
(***************************************************************************)
\* both handlers have loaded before either has finished, A first each time
Interleaved ==
    /\ Len(log) = 4
    /\ [j \in 1..4 |-> log[j][2]] = <<"A", "B", "A", "B">>
    /\ log[1][1] = "load" /\ log[2][1] = "load"

\* what request h alone makes of the document as it was before either ran
Alone(h) == serve(inflight[h].request, pre)

\* C19: if two edit requests A and B against the same document interleave as
\* load_A, load_B, save_A, save_B, then both report success and the persisted
\* document equals B's mutation applied to the document as it was before
\* either ran: A's change is absent (last write wins), with no lock, version
\* check or error.
C19_LastWriteWins ==
    (Interleaved /\ Alone("A").resp.status = 200 /\ Alone("B").resp.status = 200)
        => /\ log[3] = <<"save", "A">> /\ log[4] = <<"save", "B">>
           /\ inflight["A"].resp.status = 200
           /\ inflight["B"].resp.status = 200
           /\ docs = Alone("B").docs

\* the interleaving with two requests that each change the document: what is
\* saved is neither A's document nor what B makes of A's document
C19_Witness ==
    /\ Interleaved /\ log[3] = <<"save", "A">> /\ log[4] = <<"save", "B">>
    /\ Alone("A").docs # pre /\ Alone("B").docs # pre
    /\ docs # Alone("A").docs
    /\ docs # serve(inflight["B"].request, Alone("A").docs).docs
    /\ docs = Alone("B").docs

(***************************************************************************)
(* Properties of the sequence endpoints                                    *)
(***************************************************************************)
Ids(d) == [j \in 1..Len(d.sequences) |-> d.sequences[j].id]

PairwiseDistinct(l) == \A a, b \in 1..Len(l) : a # b => l[a] # l[b]

\* C20: in every reachable document state (after any sequence of
\* /sequence/create, /sequence/delete and /sequence/rename requests starting
\* from a document with pairwise distinct integer ids), the sequence ids are
\* pairwise distinct; /sequence/create assigns one plus the maximum existing
\* id.
C20_SequenceIdsPairwiseDistinct ==
    /\ PairwiseDistinct(Ids(docs))
    /\ (req.op = "sequence_create" /\ resp.status = 200)
           => /\ \E j \in 1..Len(pre.sequences) : resp.new_id = Ids(pre)[j] + 1
              /\ \A j \in 1..Len(pre.sequences) : resp.new_id > Ids(pre)[j]
              /\ Ids(docs) = Append(Ids(pre), resp.new_id)

\* a sequence created in a document whose ids are out of order and have a
\* gap, after a rename
C20_Witness ==
    /\ req.op = "sequence_create" /\ resp.status = 200
    /\ Ids(pre) = <<5, 2>> /\ Ids(docs) = <<5, 2, 6>>
    /\ pre.sequences[2].name = <<"n">>

(***************************************************************************)
(* Properties of the compiler as a function of its input                   *)
(***************************************************************************)
\* the id of the edge of a type between two record indices, made for a field
\* key (a same-class edge has no field key)
EdgeIdOf(src, tgt, type, key) ==
    IF type = "same_class"
    THEN <<"s", "c">> \o IntStr(src) \o <<"_">> \o IntStr(tgt)
    ELSE <<"e">> \o IntStr(src) \o <<"_">> \o IntStr(tgt) \o <<"_">> \o key

ParsedModule == req.op = "parse_module_class_func" /\ resp # NoResponse

\* the places of the dots of a text
Dots(t) == {q \in 1..Len(t) : t[q] = "."}

\* what str() gives for the values of the pool that are no text
Stringified(v) ==
    CASE v = IntV(7) -> <<"7">>
      [] v = FloatV(15) -> <<"1", ".", "5">>
      [] v = BoolV(TRUE) -> <<"T", "r", "u", "e">>
      [] v = BoolV(FALSE) -> <<"F", "a", "l", "s", "e">>
      [] v = NoneV -> <<"N", "o", "n", "e">>
      [] v = ListV -> <<"[", "]">>
      [] v = DictV(EmptyDict) -> <<"{", "}">>

\* C22: parse_module_class_func(full) returns, for a string containing at
\* least one dot, (text before the first dot, text after the last dot); for a
\* string without a dot, ("", full); for a non-string, ("", stringified
\* value).
C22_ParseModuleClassFunc ==
    ParsedModule =>
        LET full == req.module_str
        IN  IF full.kind # "str"
            THEN resp.cls = EmptyStr /\ resp.func = Stringified(full)
            ELSE IF Dots(full.s) = {}
            THEN resp.cls = EmptyStr /\ resp.func = full.s
            ELSE /\ \E q \in Dots(full.s) :
                        /\ \A r \in Dots(full.s) : q <= r
                        /\ resp.cls = SubSeq(full.s, 1, q - 1)
                 /\ \E q \in Dots(full.s) :
                        /\ \A r \in Dots(full.s) : r <= q
                        /\ resp.func = SubSeq(full.s, q + 1, Len(full.s))

\* "A..", whose first dot is not its last, has been split into "A" and ""
C22_Witness ==
    /\ ParsedModule
    /\ req.module_str = StrV(<<"A", ".", ".">>)
    /\ resp.cls = <<"A">> /\ resp.func = EmptyStr

(***************************************************************************)
(* Properties of the compiler's input check                                *)
(***************************************************************************)
\* C23: build_graph_from_sequence fails with an error (and returns no graph)
\* whenever the sequence's module_sequence is present and is not a list.
C23_NotAListFails ==
    (graph.status # "none" /\ sequence.module_sequence.kind \notin {"list", "missing"})
        => /\ graph.status = "ValueError"
           /\ graph.nodes = << >> /\ graph.edges = << >>

\* a module_sequence that is null has been refused
C23_Witness ==
    /\ sequence.module_sequence.kind = "none"
    /\ graph.status = "ValueError"

(***************************************************************************)
(* Properties of the editor page's staged batch                            *)
(***************************************************************************)
\* the records of the sequence the page shows, in document d
Shown(d) ==
    d.sequences[choose_sequence(d.sequences, client.currentSeqId) + 1].module_sequence.items

\* a record without its link field: what tells the records of a list apart
Unlinked(rec) == [k \in DOMAIN rec \ {K_ref_a} |-> rec[k]]

\* the value a staged link writes: {module: source_func, name: output_name, order: 0}
LinkValue == Ref(StrV(S_f), <<"a">>)

\* handler h answers 200 in this step
Answers200(h) ==
    /\ h \in DOMAIN inflight /\ h \in DOMAIN inflight'
    /\ inflight[h].pc = "loaded"
    /\ inflight'[h].pc = "answered"
    /\ inflight'[h].resp.status = 200

\* C24: in a batch with staged inserts and staged links to existing nodes,
\* every /update of the batch writes its link into the record that had index
\* target_index in the list the page showed when the link was staged
C24_LinkWrittenToTargetedRecord ==
    [][\A h \in DOMAIN inflight :
           (client.stagedAdds # << >> /\ Answers200(h))
               => /\ Shown(docs')[inflight[h].request.node_index.n + 1][K_ref_a] = LinkValue
                  /\ Unlinked(Shown(docs')[inflight[h].request.node_index.n + 1])
                         = Unlinked(Shown(pre)[inflight[h].request.node_index.n + 1])]_vars


\* C25: when a batch of links alone to two or more distinct nodes ends with
\* 'Saved', the document holds every staged link: the target_key field of the
\* record at each target_index is {module: source_func, name: output_name,
\* order: 0}, whatever the order in which the /update handlers load and save
C25_EveryStagedLinkPersisted ==
    [][(/\ client.pc = "updating"
        /\ client'.statusEl = "Saved"
        /\ client.stagedAdds = << >>
        /\ client.stagedReorder = NoneV
        /\ Cardinality(DOMAIN inflight) >= 2)
           => \A j \in 1..Len(client.stagedLinks) :
                  Shown(docs')[client.stagedLinks[j].target_index + 1]
                              [client.stagedLinks[j].target_key]
                      = Ref(StrV(client.stagedLinks[j].source_func),
                            client.stagedLinks[j].output_name)]_vars


\* C26: a batch with staged adds and a staged order whose inserts are
\* persisted ends with 'Saved': /reorder_nodes accepts the staged order
C26_AddsAndReorderBothApplied ==
    [][(/\ client.pc = "updating"
        /\ client'.pc = "idle"
        /\ client.stagedAdds # << >>
        /\ client.stagedReorder # NoneV
        /\ client.stagedLinks = << >>)
           => client'.statusEl = "Saved"]_vars


\* the places <<sequence, index>> of document d that hold a record dropped
\* from the library
Inserted(d) ==
    UNION {{<<j, i>> : i \in {h \in 1..Len(d.sequences[j].module_sequence.items) :
                                Unlinked(d.sequences[j].module_sequence.items[h]) \in {N1, N2}}} :
              j \in 1..Len(d.sequences)}

\* C27: over any number of clicks on Save a staged add is inserted at most
\* once: the document never holds more inserted records than adds were staged
C27_StagedAddInsertedAtMostOnce ==
    Cardinality(Inserted(docs)) <= client.stagedAddCounter


\* C28: when the reorder step of a batch fails (the staged order is not as
\* long as the list) after the insert step and the link updates succeeded,
\* the page shows 'Save failed' and the document stays as the earlier steps
\* left it: it still holds every staged record that was inserted
C28_NoRollbackAndFailureReported ==
    [][(/\ client.pc = "updating"
        /\ client'.pc = "idle"
        /\ client.stagedReorder # NoneV
        /\ Len(client.stagedReorder.items) # Len(Shown(docs)))
           => /\ client'.statusEl = "Save failed"
              /\ docs' = docs
              /\ \A j \in 1..Len(client.stagedAdds) :
                     \E i \in 1..Len(Shown(docs')) :
                         Unlinked(Shown(docs')[i]) = client.stagedAdds[j].node]_vars

\* a batch has failed at its reorder step, and the record its insert step
\* added is in the document, which the page has not loaded again
C28_Witness ==
    /\ client.pc = "idle"
    /\ client.statusEl = "Save failed"
    /\ client.stagedAdds # << >>
    /\ client.stagedReorder # NoneV
    /\ Inserted(docs) # {}
    /\ Shown(docs) # Shown(pre)


\* C29: once another sequence is selected nothing that was staged against
\* the sequence shown before is pending: no link, no add and no order
C29_SelectingDropsEveryStagedEdit ==
    [][client'.currentSeqId # client.currentSeqId
           => /\ client'.stagedLinks = << >>
              /\ client'.stagedAdds = << >>
              /\ client'.stagedReorder = NoneV]_vars


(***************************************************************************)
(* Properties of the current config path                                   *)
(***************************************************************************)
\* C30: an edit that saves writes the file it loaded its document from, and
\* no other file changes in that step, whatever happened to the current
\* config path between the load and the save
C30_EditWritesTheFileItLoaded ==
    [][(Len(log') = Len(log) + 1 /\ log'[Len(log')][1] = "save")
           => \E j \in 1..Len(log) :
                  /\ log[j] = <<"load", log'[Len(log')][2], log'[Len(log')][3]>>
                  /\ \A path \in DOMAIN files :
                         path # log[j][3] => files'[path] = files[path]]_vars


(***************************************************************************)
(* Properties of the edit endpoints on the sequences they do not name      *)
(***************************************************************************)
\* the sequence s has the id the request names: a number, or its digits
NamedBy(s, seq_id) ==
    \/ seq_id.kind = "int" /\ s.id = seq_id.n
    \/ seq_id.kind = "str" /\ IntStr(s.id) = seq_id.s

\* C31: an edit request that names a sequence id leaves every sequence with
\* another id as it was; a request whose id is the id of no sequence changes
\* no sequence
C31_OtherSequencesUnchanged ==
    (req.op = "add_nodes" /\ req.sequence_id # NoneV)
        => /\ Len(docs.sequences) = Len(pre.sequences)
           /\ \A j \in 1..Len(pre.sequences) :
                  ~NamedBy(pre.sequences[j], req.sequence_id)
                      => docs.sequences[j] = pre.sequences[j]


\* C32: whatever creates and deletes came before, also the delete of the only
\* sequence, a /sequence/create succeeds and the document then lists the new
\* sequence under the id the response gives
C32_CreateAlwaysSucceeds ==
    req.op = "sequence_create"
        => /\ resp.status = 200
           /\ Len(docs.sequences) = Len(pre.sequences) + 1
           /\ docs.sequences[Len(docs.sequences)].id = resp.new_id


(***************************************************************************)
(* Properties of the places an insert batch gives its records              *)
(***************************************************************************)
\* the list l without the entries at the positions P
Without(l, P) ==
    LET keep == (1..Len(l)) \ P
    IN  [i \in 1..Cardinality(keep) |->
            l[CHOOSE p \in keep : Cardinality({q \in keep : q < p}) = i - 1]]

\* the ways to tell the inserted records from the original ones: each planned
\* insert is given a position of the resulting list, its own, that holds its
\* node, and the other positions hold the original list in its order
Placements ==
    {g \in [Planned -> 1..Len(TargetModules(docs, req.sequence_id))] :
        /\ \A a, b \in Planned : a # b => g[a] # g[b]
        /\ \A j \in Planned :
               TargetModules(docs, req.sequence_id)[g[j]] = req.inserts[j].node
        /\ Without(TargetModules(docs, req.sequence_id), {g[j] : j \in Planned})
               = TargetModules(pre, req.sequence_id)}

\* the number of original records before the record of insert j
OriginalsBefore(g, j) ==
    Cardinality({i \in 1..(g[j] - 1) : \A h \in Planned : g[h] # i})

\* C33: after an insert batch into n records, a staged record whose desired
\* index d is within 0..n has exactly d original records before it, also
\* when other records of the batch were placed ahead of it
C33_DesiredIndexCountsOriginals ==
    AddNodesServed =>
        \E g \in Placements :
            \A j \in Planned :
                (/\ 0 <= req.inserts[j].index.n
                 /\ req.inserts[j].index.n <= Len(TargetModules(pre, req.sequence_id)))
                    => OriginalsBefore(g, j) = req.inserts[j].index.n


\* C34: an insert batch keeps every original record: the resulting list
\* without the inserted records is the original list, and it is longer than
\* the original list by the number of planned inserts
C34_InsertKeepsEveryOriginalRecord ==
    AddNodesServed =>
        /\ Placements # {}
        /\ Len(TargetModules(docs, req.sequence_id))
               = Len(TargetModules(pre, req.sequence_id)) + Cardinality(Planned)

\* two records have been inserted among three, one of them between two
\* original records
C34_Witness ==
    /\ AddNodesServed
    /\ Cardinality(Planned) = 2
    /\ Len(TargetModules(pre, req.sequence_id)) = 3
    /\ \E g \in Placements, j \in Planned :
           OriginalsBefore(g, j) \in {1, 2}


\* the planned inserts placed before insert j: plan.sort is ascending in the
\* desired index and keeps the listing order of equal indices
PlacedBefore(j) ==
    {h \in Planned :
        \/ req.inserts[h].index.n < req.inserts[j].index.n
        \/ req.inserts[h].index.n = req.inserts[j].index.n /\ h < j}

\* the length of the list at the moment insert j is placed
LengthAt(j) == Len(TargetModules(pre, req.sequence_id)) + Cardinality(PlacedBefore(j))

\* C35: no insert of a batch on a list fails for its index; the final index
\* reported for each is within 0..L, L being the length of the list at the
\* moment the record is placed: 0 for a negative desired index, L for one
\* above L, the desired index otherwise
C35_FinalIndexClampedToCurrentLength ==
    (req.op = "add_nodes"
        /\ pre.sequences[choose_sequence(pre.sequences, req.sequence_id) + 1]
              .module_sequence.kind = "list")
        => /\ resp.status = 200
           /\ \A j \in Planned :
                  /\ req.inserts[j].staged_id \in DOMAIN resp.assigned
                  /\ resp.assigned[req.inserts[j].staged_id]
                         = IF req.inserts[j].index.n < 0 THEN 0
                           ELSE IF req.inserts[j].index.n > LengthAt(j) THEN LengthAt(j)
                           ELSE req.inserts[j].index.n

\* a batch of an insert with a negative index and an insert with an index
\* beyond the end has been served
C35_Witness ==
    /\ AddNodesServed
    /\ \E a, b \in Planned :
           /\ req.inserts[a].index.n < 0
           /\ req.inserts[b].index.n > Len(TargetModules(docs, req.sequence_id))
           /\ resp.assigned[req.inserts[a].staged_id] = 0
           /\ resp.assigned[req.inserts[b].staged_id]
                  = Len(TargetModules(pre, req.sequence_id)) + 1


(***************************************************************************)
(* Properties of /sequence/delete                                          *)
(***************************************************************************)
\* the sequences of the document before the request that the delete keeps
KeptByDelete == {j \in 1..Len(pre.sequences) : pre.sequences[j].id # req.id.n}

\* the number of kept sequences whose id was smaller than that of sequence j
RankOfKept(j) ==
    Cardinality({h \in KeptByDelete : pre.sequences[h].id < pre.sequences[j].id})

\* C36: a /sequence/delete of the id of a sequence removes the sequence with
\* that id and numbers the others 0..m-1 in ascending order of their ids,
\* each with the name and the records it had; a delete of an id no sequence
\* has is rejected and leaves the document as it was
C36_DeleteRemovesAndRenumbers ==
    req.op = "sequence_delete"
        => IF req.id.kind = "int"
              /\ \E j \in 1..Len(pre.sequences) : pre.sequences[j].id = req.id.n
           THEN /\ resp.status = 200
                /\ Len(docs.sequences) = Cardinality(KeptByDelete)
                /\ \A j \in KeptByDelete :
                       docs.sequences[RankOfKept(j) + 1]
                           = [pre.sequences[j] EXCEPT !.id = RankOfKept(j)]
           ELSE resp.status # 200 /\ docs = pre

\* the sequence of id 6 has been deleted from sequences of ids 5, 2, 6: the
\* document lists the sequence that had id 2 as 0 and then the one that had
\* id 5 as 1
C36_Witness ==
    /\ req.op = "sequence_delete" /\ resp.status = 200
    /\ req.id = IntV(6)
    /\ Ids(pre) = <<5, 2, 6>>
    /\ Ids(docs) = <<0, 1>>
    /\ docs.sequences[1].module_sequence = pre.sequences[2].module_sequence
    /\ docs.sequences[2].module_sequence = pre.sequences[1].module_sequence
    /\ docs.sequences[1].module_sequence # docs.sequences[2].module_sequence


(***************************************************************************)
(* Properties of coerce_value, rule by rule of the old value's type        *)
(***************************************************************************)
\* the JSON value of each text of the pool that is JSON once trimmed
JsonValueOf(t) ==
    CASE t = T_true -> BoolV(TRUE)
      [] t = T_0 -> IntV(0)
      [] t = T_1 -> IntV(1)
      [] t \in {T_13, T_13_spaced} -> IntV(13)
      [] t = T_minus7 -> IntV(-7)
      [] t = T_3p7 -> FloatV(37)
      [] t = T_minus3p7 -> FloatV(-37)
      [] t = T_list_1_2 -> SeqV("list", <<IntV(1), IntV(2)>>)
      [] t = T_list_empty -> SeqV("list", << >>)
      [] t = T_map_a_1 -> DictV(<<"a">> :> IntV(1))
      [] t = T_quoted_x -> StrV(<<"x">>)
      [] t = T_null -> NoneV

\* C37: against an old map, list or tuple, coerce_value returns the JSON
\* value of the trimmed text when it is JSON, as a tuple when the old value
\* is a tuple and the JSON value a list, and the trimmed text itself when it
\* is not JSON
C37_ContainerRule ==
    (Coerced /\ req.old_val.kind \in {"dict", "list", "tuple"} /\ req.new_val.kind = "str")
        => /\ resp.ok
           /\ IF req.new_val.s \in NotJson
              THEN resp.value.kind = "str" /\ IsTrimOf(resp.value.s, req.new_val.s)
              ELSE resp.value =
                       IF req.old_val.kind = "tuple"
                          /\ JsonValueOf(req.new_val.s).kind = "list"
                       THEN SeqV("tuple", JsonValueOf(req.new_val.s).m)
                       ELSE JsonValueOf(req.new_val.s)

\* "[1, 2]" against the old tuple (1, 2) has given the tuple (1, 2)
C37_Witness ==
    /\ Coerced
    /\ req.new_val = StrV(T_list_1_2)
    /\ req.old_val = SeqV("tuple", <<IntV(1), IntV(2)>>)
    /\ resp = Parsed(SeqV("tuple", <<IntV(1), IntV(2)>>))


\* the integer int(s, 10) gives for each text of the pool it accepts
IntegerOf(t) ==
    CASE t = T_0 -> 0
      [] t = T_1 -> 1
      [] t \in {T_13, T_13_spaced} -> 13
      [] t = T_minus7 -> -7
      [] t = T_plus5 -> 5
      [] t = T_1_0 -> 10
      [] t = T_007 -> 7

\* the truncation of float(s) for each text of the pool only float() accepts
\* and int() can convert
TruncatedOf(t) ==
    CASE t = T_3p7 -> 3
      [] t = T_minus3p7 -> -3

\* the texts of the pool the boolean rule maps to True: the words for true,
\* and every text that is no word for false and is not empty once trimmed
TrueTexts == Texts \ {T_off, T_0, T_empty, T_blank}

\* C38: against an old integer that is no boolean, coerce_value returns the
\* base-10 integer of the text; else the truncation of the text read as a
\* float; else the old value.  An old boolean gets the boolean rule: "13"
\* against True is True, not 13
C38_IntegerRule ==
    (Coerced /\ req.new_val.kind = "str")
        => /\ req.old_val.kind = "int"
                => resp = Parsed(IntV(
                       IF req.new_val.s \in {T_0, T_1, T_13, T_13_spaced, T_minus7, T_plus5,
                                             T_1_0, T_007}
                       THEN IntegerOf(req.new_val.s)
                       ELSE IF req.new_val.s \in {T_3p7, T_minus3p7}
                            THEN TruncatedOf(req.new_val.s)
                            ELSE req.old_val.n))
           /\ req.old_val.kind = "bool"
                => resp = Parsed(BoolV(req.new_val.s \in TrueTexts))

\* "-3.7" against the old integer 5 has given -3
C38_Witness ==
    /\ Coerced
    /\ req.new_val = StrV(T_minus3p7)
    /\ req.old_val = IntV(5)
    /\ resp = Parsed(IntV(-3))
====
